---- MODULE Spec2Model ----
(***************************************************************************)
(* Model of afm417-workflow-diagrams: the process-schema-to-diagram        *)
(* compiler (validateProcessSchema and generateMermaidFromJson of          *)
(* utils/mermaidGenerator.ts), the MermaidRenderer component that calls    *)
(* it, and the rate limiter of the openai-chat-v2 edge function            *)
(* (checkRateLimit of rate-limiter.ts and the Deno.serve handler).         *)
(*                                                                         *)
(* Each part has its own specification over its own variables; the         *)
(* variables of the other parts keep their initial values.                 *)
(*                                                                         *)
(* Strings are sequences of one-character strings, so that sanitizeId and  *)
(* escapeLabel act on characters as the regular expressions of the code    *)
(* do.  The marker Undefined stands for a property that is absent from     *)
(* the JSON object (JavaScript undefined).                                 *)
(***************************************************************************)
EXTENDS Integers, Sequences, FiniteSets, TLC

\* The calls of the two functions on a document: the document, and the
\* outcome and the result of each call.
VARIABLES json, vstatus, errors, cstatus, lines

\* MermaidRenderer: the prop processJson, the state mermaidCode and
\* renderError, and the calls of the two functions the effect has made.
VARIABLES processJson, mermaidCode, renderError, calls

\* The rate limiter: the rows of the table rate_limits of one session and
\* endpoint, the time in minutes, the configuration of the calls, whether
\* the store credentials are set and whether the store may fail, the
\* state of each caller's checkRateLimit call, the response of the handler
\* to each caller, and the number of the calls that have returned and of
\* those that returned allowed = true.
VARIABLES rate_limits, clock, config, credentials, faults, call, response,
          handled, allowedCalls

\* MermaidRenderer: the container element that containerRef holds (current
\* is 0 when no container is mounted) with its innerHTML, the calls of
\* mermaid.render that have not settled, each with the container and the
\* text of its renderDiagram, and the number of the container elements
\* mounted so far.
VARIABLES containerRef, pending, mounts

\* AppV2: the state currentJSON and the number of the calls of
\* setCurrentJSON, the position of handleSendMessage ("idle", "awaiting"
\* the response or "responded"), the content of the assistant's message
\* and what sendMessage made of it, the handler that acted last, and the
\* number of the user's actions.
VARIABLES currentJSON, jsonSets, chat, assistant, cause, turns

\* useDebounce(currentJSON, 300) in AppV2: the argument current (the document
\* and the number of the call of setCurrentJSON that made it current), the
\* state debouncedValue, the timeouts that are set and not cleared (each
\* with the value of its callback and the time since setTimeout), the time
\* for which it has not changed, the number of its changes,
\* and the changes whose value was replaced before the delay had passed.
VARIABLES current, debouncedValue, timeouts, unchangedFor, changes, replacedEarly

callVars == <<json, vstatus, errors, cstatus, lines>>
debounceVars == <<current, debouncedValue, timeouts, unchangedFor, changes, replacedEarly>>
appVars == <<currentJSON, jsonSets, chat, assistant, cause, turns>>
rendererVars == <<processJson, mermaidCode, renderError, calls, containerRef, pending,
                  mounts>>
limiterVars == <<rate_limits, clock, config, credentials, faults, call, response,
                 handled, allowedCalls>>

vars == <<callVars, rendererVars, limiterVars, appVars, debounceVars>>

---------------------------------------------------------------------------
(* Bounds of the documents drawn by Init.                                  *)

\* The most steps of a document of the steps family, the most flows of a
\* document of the flows family and of the order family.
MaxSteps == 3
MaxFlows == 2
MaxEdges == 3

\* The most documents that MermaidRenderer receives.
MaxRenders == 3

\* The latest time of the clock, the most calls of checkRateLimit and the
\* most requests sent to the endpoint.
MaxClock == 6
MaxCalls == 4
MaxSent == 42

\* The most lines of an assistant's message and the most actions of the
\* user in AppV2.
MaxContentLines == 4
MaxTurns == 2

\* The most changes of the current document that useDebounce sees, and the
\* steps of the clock in one delay.
MaxChanges == 3
TicksPerDelay == 3

\* The calls of traverseFlows in one traversal after which the traversal is
\* cut off (the code has no such limit).
MaxTraversalCalls == 12

---------------------------------------------------------------------------
(* JavaScript values.                                                      *)

Undefined == <<"undefined">>

\* !x for a string-valued property: undefined and '' are falsy.
Truthy(x) == x # Undefined /\ x # <<>>

LowerChars == <<"a","b","c","d","e","f","g","h","i","j","k","l","m",
                "n","o","p","q","r","s","t","u","v","w","x","y","z">>
UpperChars == <<"A","B","C","D","E","F","G","H","I","J","K","L","M",
                "N","O","P","Q","R","S","T","U","V","W","X","Y","Z">>
DigitChars == {"0","1","2","3","4","5","6","7","8","9"}

\* The character class [a-zA-Z0-9_-] of sanitizeId.
IdChars == {LowerChars[i] : i \in 1..26} \cup {UpperChars[i] : i \in 1..26}
             \cup DigitChars \cup {"_", "-"}

toLowerChar(c) ==
  IF \E i \in 1..26 : UpperChars[i] = c
  THEN LowerChars[CHOOSE i \in 1..26 : UpperChars[i] = c]
  ELSE c

toLowerCase(s) == [i \in 1..Len(s) |-> toLowerChar(s[i])]

RECURSIVE Concat(_)
Concat(ss) == IF ss = <<>> THEN <<>> ELSE Head(ss) \o Concat(Tail(ss))

\* The number of the elements of the sequence s that satisfy Test.
Count(s, Test(_)) == Cardinality({i \in 1..Len(s) : Test(s[i])})

---------------------------------------------------------------------------
(* sanitizeId and escapeLabel.                                             *)

RESERVED_KEYWORDS ==
  { <<"s","t","a","r","t">>, <<"e","n","d">>,
    <<"s","u","b","g","r","a","p","h">>, <<"g","r","a","p","h">>,
    <<"f","l","o","w","c","h","a","r","t">>,
    <<"d","i","r","e","c","t","i","o","n">>,
    <<"c","l","a","s","s">>, <<"s","t","y","l","e">>,
    <<"c","l","i","c","k">>, <<"c","a","l","l">> }

NodePrefix == <<"n","o","d","e","_">>

\* id.replace(/[^a-zA-Z0-9_-]/g, '_')
replaceSpecial(id) == [i \in 1..Len(id) |-> IF id[i] \in IdChars THEN id[i] ELSE "_"]

\* sanitizeId comparing with the keywords without toLowerCase().
sanitizeIdCaseSensitive(id) ==
  LET sanitized == replaceSpecial(id)
  IN  IF sanitized \in RESERVED_KEYWORDS THEN NodePrefix \o sanitized ELSE sanitized

\* Lines 259-278.
sanitizeId(id) ==
  LET sanitized == replaceSpecial(id)
  IN  IF toLowerCase(sanitized) \in RESERVED_KEYWORDS
      THEN NodePrefix \o sanitized
      ELSE sanitized

\* escapeLabel without .replace(/\n/g, '<br/>').
escapeCharQuoteOnly(c) ==
  IF c = "\"" THEN <<"#","q","u","o","t",";">> ELSE <<c>>

\* One character of label.replace(/"/g, '#quot;').replace(/\n/g, '<br/>').
escapeChar(c) ==
  IF c = "\"" THEN <<"#","q","u","o","t",";">>
  ELSE IF c = "\n" THEN <<"<","b","r","/",">">>
  ELSE <<c>>

\* label.replace(/"/g, '#quot;').replace(/\n/g, '<br/>')
escapeLabel(label) == Concat([i \in 1..Len(label) |-> escapeChar(label[i])])

---------------------------------------------------------------------------
(* Documents.  A document is a record                                      *)
(*   [absent, processName, processId,                                      *)
(*    actorsKind, actors, stepsKind, steps, flowsKind, flows]              *)
(* absent is TRUE for a null/undefined document.  Each collection has a    *)
(* kind: "array", "missing" (the property is undefined) or "object" (a     *)
(* value that is neither nullish nor an array, such as {}); the items are  *)
(* <<>> unless the kind is "array".                                        *)

IsArray(kind) == kind = "array"

Actor(id, name, department) == [id |-> id, name |-> name, department |-> department]

Step(id, type, label, actorId, controls, risks) ==
  [id |-> id, type |-> type, label |-> label, actorId |-> actorId,
   controls |-> controls, risks |-> risks]

Flow(from, to, label, type) == [from |-> from, to |-> to, label |-> label, type |-> type]

Doc(processName, processId, actors, steps, flows) ==
  [absent |-> FALSE, processName |-> processName, processId |-> processId,
   actorsKind |-> "array", actors |-> actors,
   stepsKind |-> "array", steps |-> steps,
   flowsKind |-> "array", flows |-> flows]

---------------------------------------------------------------------------
(* validateProcessSchema.  A message is a record [msg, idx, value]: the    *)
(* message text with its index and value placeholders.                     *)

Msg(m) == [msg |-> m, idx |-> -1, value |-> <<>>]
MsgAt(m, idx) == [msg |-> m, idx |-> idx, value |-> <<>>]
MsgRef(m, idx, value) == [msg |-> m, idx |-> idx, value |-> value]

\* if (cond) errors.push(m)
PushIf(cond, m) == IF cond THEN <<m>> ELSE <<>>

\* The list of line 319 without 'decision'.
STEP_TYPES_WithoutDecision == {"action", "start", "end"}

\* Line 319.
STEP_TYPES == {"action", "decision", "start", "end"}

\* The checks of lines 298-301, without the check of flows of line 302.
requiredFieldErrorsWithoutFlows(doc) ==
  PushIf(~Truthy(doc.processName), Msg("processName is required"))
  \o PushIf(~Truthy(doc.processId), Msg("processId is required"))
  \o PushIf(~IsArray(doc.actorsKind), Msg("actors must be an array"))
  \o PushIf(~IsArray(doc.stepsKind), Msg("steps must be an array"))

\* Lines 298-302: the required fields of the document.
requiredFieldErrors(doc) ==
  PushIf(~Truthy(doc.processName), Msg("processName is required"))
  \o PushIf(~Truthy(doc.processId), Msg("processId is required"))
  \o PushIf(~IsArray(doc.actorsKind), Msg("actors must be an array"))
  \o PushIf(~IsArray(doc.stepsKind), Msg("steps must be an array"))
  \o PushIf(~IsArray(doc.flowsKind), Msg("flows must be an array"))

\* Lines 305-308: the callback of json.actors?.forEach; idx is 0-based.
actorErrors(actor, idx) ==
  PushIf(~Truthy(actor.id), MsgAt("actors[idx].id is required", idx))
  \o PushIf(~Truthy(actor.name), MsgAt("actors[idx].name is required", idx))

\* stepIds holding only the id of the step just before.
stepIdsBeforeLastOnly(steps, i) == {steps[j].id : j \in (1..(i - 1)) \cap {i - 1}}

\* Lines 311, 317: the content of the set stepIds when the callback runs on
\* the i-th step: the ids that the callbacks of the steps before it added.
stepIdsBefore(steps, i) == {steps[j].id : j \in 1..(i - 1)}

\* Lines 314-327: the callback of json.steps?.forEach.  stepIds is the set
\* of the ids added by the steps before this one.
stepErrors(step, idx, stepIds, actorIds) ==
  PushIf(~Truthy(step.id), MsgAt("steps[idx].id is required", idx))
  \o PushIf(step.id \in stepIds, MsgRef("Duplicate step ID: value", -1, step.id))
  \o PushIf(step.type = "" \/ step.type \notin STEP_TYPES,
            MsgAt("steps[idx].type must be action|decision|start|end", idx))
  \o PushIf(~Truthy(step.label), MsgAt("steps[idx].label is required", idx))
  \o PushIf(~Truthy(step.actorId), MsgAt("steps[idx].actorId is required", idx))
  \o PushIf(Truthy(step.actorId) /\ step.actorId \notin actorIds,
            MsgRef("steps[idx].actorId \"value\" references non-existent actor",
                   idx, step.actorId))

\* The callback of json.flows?.forEach without the check of lines 336-338.
flowErrorsFromOnly(flow, idx, stepIds) ==
  PushIf(~Truthy(flow.from), MsgAt("flows[idx].from is required", idx))
  \o PushIf(~Truthy(flow.to), MsgAt("flows[idx].to is required", idx))
  \o PushIf(Truthy(flow.from) /\ flow.from \notin stepIds,
            MsgRef("flows[idx].from \"value\" references non-existent step",
                   idx, flow.from))

\* Lines 330-339: the callback of json.flows?.forEach.
flowErrors(flow, idx, stepIds) ==
  PushIf(~Truthy(flow.from), MsgAt("flows[idx].from is required", idx))
  \o PushIf(~Truthy(flow.to), MsgAt("flows[idx].to is required", idx))
  \o PushIf(Truthy(flow.from) /\ flow.from \notin stepIds,
            MsgRef("flows[idx].from \"value\" references non-existent step",
                   idx, flow.from))
  \o PushIf(Truthy(flow.to) /\ flow.to \notin stepIds,
            MsgRef("flows[idx].to \"value\" references non-existent step",
                   idx, flow.to))

\* Lines 342-344 without the else branch of lines 345-347.
startNodeErrorsAtMostOne(steps) ==
  LET startNodes == Count(steps, LAMBDA s : s.type = "start")
  IN  PushIf(startNodes = 0, Msg("Process must have exactly one start node"))

\* Lines 342-347.
startNodeErrors(steps) ==
  LET startNodes == Count(steps, LAMBDA s : s.type = "start")
  IN  IF startNodes = 0
      THEN <<Msg("Process must have exactly one start node")>>
      ELSE IF startNodes > 1
      THEN <<Msg("Process must have exactly one start node (found multiple)")>>
      ELSE <<>>

\* Lines 350-353 with endNodes.length !== 1 as the condition.
endNodeErrorsExactlyOne(steps) ==
  LET endNodes == Count(steps, LAMBDA s : s.type = "end")
  IN  PushIf(endNodes # 1, Msg("Process must have at least one end node"))

\* Lines 350-353.
endNodeErrors(steps) ==
  LET endNodes == Count(steps, LAMBDA s : s.type = "end")
  IN  PushIf(endNodes = 0, Msg("Process must have at least one end node"))

\* json.actors?.forEach, json.steps?.forEach, ... on a value that is neither
\* nullish nor an array: forEach is undefined and the call throws a
\* TypeError; so does json.processName on a null document.
validateThrows(doc) ==
  \/ doc.absent
  \/ doc.actorsKind = "object"
  \/ doc.stepsKind = "object"
  \/ doc.flowsKind = "object"

\* The errors of a document on which no statement throws (lines 295-355).
\* An undefined collection is skipped by ?. and counts as [] in the filters.
validationErrors(doc) ==
  LET actors   == doc.actors
      steps    == doc.steps
      flows    == doc.flows
      actorIds == {actors[i].id : i \in 1..Len(actors)}
      stepIds  == {steps[i].id : i \in 1..Len(steps)}
  IN  requiredFieldErrors(doc)
      \o Concat([i \in 1..Len(actors) |-> actorErrors(actors[i], i - 1)])
      \o Concat([i \in 1..Len(steps) |-> stepErrors(steps[i], i - 1, stepIdsBefore(steps, i), actorIds)])
      \o Concat([i \in 1..Len(flows) |-> flowErrors(flows[i], i - 1, stepIds)])
      \o startNodeErrors(steps)
      \o endNodeErrors(steps)

\* The outcome of validateProcessSchema(json): it throws or returns errors.
validateProcessSchema(doc) ==
  IF validateThrows(doc)
  THEN [threw |-> TRUE, errors |-> <<>>]
  ELSE [threw |-> FALSE, errors |-> validationErrors(doc)]

---------------------------------------------------------------------------
(* generateMermaidFromJson.  The diagram text is the sequence of its       *)
(* lines; a line is a record whose field k names the statement and whose   *)
(* other fields are the texts placed in the statement's template.  The     *)
(* shape of a node statement is the pair of the delimiters that enclose    *)
(* its label.                                                              *)

HeaderLine == [k |-> "graph TB"]
BlankLine == [k |-> ""]
EndLine == [k |-> "end"]
SubgraphLine(id, label) == [k |-> "subgraph", id |-> id, label |-> label]
NodeLine(id, shape, label, classes) ==
  [k |-> "node", id |-> id, shape |-> shape, label |-> label, classes |-> classes]
EdgeLine(from, to, labelled, label) ==
  [k |-> "edge", from |-> from, to |-> to, labelled |-> labelled, label |-> label]
ClassDefLine(name) == [k |-> "classDef", name |-> name]

Range(s) == {s[i] : i \in 1..Len(s)}

\* Array.prototype.find: the index of the first element with Test, or 0.
FindIndex(s, Test(_)) ==
  IF \E i \in 1..Len(s) : Test(s[i])
  THEN CHOOSE i \in 1..Len(s) : Test(s[i]) /\ \A j \in 1..(i - 1) : ~Test(s[j])
  ELSE 0

\* `${x}` in a template literal.
TemplateText(x) ==
  IF x = Undefined THEN <<"u","n","d","e","f","i","n","e","d">> ELSE x

\* x.replace(...) on undefined throws a TypeError.
ReplaceThrows(x) == x = Undefined

\* buildFlowGraph(flows).get(stepId) || []  (lines 242-253, 221)
buildFlowGraph(flows, stepId) ==
  LET out == SelectSeq(flows, LAMBDA f : f.from = stepId)
  IN  [i \in 1..Len(out) |-> out[i].to]

\* The test of line 208 that looks at the last visited step only.
visitedLast(st, stepId) ==
  st.visitedSteps # <<>> /\ st.visitedSteps[Len(st.visitedSteps)] = stepId

\* Line 208: visitedSteps.has(stepId)
alreadyVisited(st, stepId) == stepId \in Range(st.visitedSteps)

\* Lines 207-223.  st is the state the closure works on:
\* [visitedSteps, actorOrder, seenActors]; visitedSteps is kept in
\* insertion order, as a JavaScript Set keeps it.  calls counts the calls
\* of traverseFlows.
RECURSIVE traverseFlows(_, _, _)
RECURSIVE forEachNextStep(_, _, _)

traverseFlows(doc, stepId, st) ==
  IF st.calls >= MaxTraversalCalls
  THEN st
  ELSE IF alreadyVisited(st, stepId)
  THEN [st EXCEPT !.calls = @ + 1]
  ELSE LET st1  == [st EXCEPT !.visitedSteps = Append(@, stepId), !.calls = @ + 1]
           si   == FindIndex(doc.steps, LAMBDA s : s.id = stepId)
           ai   == IF si = 0 THEN 0
                   ELSE FindIndex(doc.actors, LAMBDA a : a.id = doc.steps[si].actorId)
           st2  == IF si # 0 /\ doc.steps[si].actorId \notin st1.seenActors /\ ai # 0
                   THEN [st1 EXCEPT !.actorOrder = Append(@, doc.actors[ai]),
                                    !.seenActors = @ \cup {doc.actors[ai].id}]
                   ELSE st1
       IN  forEachNextStep(doc, buildFlowGraph(doc.flows, stepId), st2)

forEachNextStep(doc, nextSteps, st) ==
  IF nextSteps = <<>>
  THEN st
  ELSE forEachNextStep(doc, Tail(nextSteps), traverseFlows(doc, Head(nextSteps), st))

\* Lines 190-227: the state of getActorOrderByFlow after the traversal.
traversal(doc) ==
  LET si  == FindIndex(doc.steps, LAMBDA s : s.type = "start")
      ai  == IF si = 0 THEN 0
             ELSE FindIndex(doc.actors, LAMBDA a : a.id = doc.steps[si].actorId)
      st0 == IF ai # 0
             THEN [visitedSteps |-> <<>>, actorOrder |-> <<doc.actors[ai]>>,
                   seenActors |-> {doc.actors[ai].id}, calls |-> 0]
             ELSE [visitedSteps |-> <<>>, actorOrder |-> <<>>, seenActors |-> {},
                   calls |-> 0]
  IN  IF si # 0 THEN traverseFlows(doc, doc.steps[si].id, st0) ELSE st0

\* The actors in the order of json.actors.
getActorOrderDeclared(doc) == doc.actors

\* Lines 189-237.
getActorOrderByFlow(doc) ==
  LET st == traversal(doc)
  IN  st.actorOrder \o SelectSeq(doc.actors, LAMBDA a : a.id \notin st.seenActors)

\* The switch without the case 'end'.
nodeShapeWithoutEnd(type) ==
  CASE type = "start" -> <<"((", "))">>
    [] type = "decision" -> <<"{", "}">>
    [] OTHER -> <<"[\"", "\"]">>

\* Lines 108-122: the switch on step.type.
nodeShape(type) ==
  CASE type = "start" -> <<"((", "))">>
    [] type = "end" -> <<"((", "))">>
    [] type = "decision" -> <<"{", "}">>
    [] OTHER -> <<"[\"", "\"]">>

\* Lines 125-133 with the two if statements in the other order.
cssClassesRiskFirst(step) ==
  PushIf(Len(step.risks) > 0, "riskStyle")
  \o PushIf(Len(step.controls) > 0, "controlStyle")

\* Lines 125-133.  An absent controls or risks array is the empty one.
cssClasses(step) ==
  PushIf(Len(step.controls) > 0, "controlStyle")
  \o PushIf(Len(step.risks) > 0, "riskStyle")

\* Lines 102-141.
buildNodeDefinition(step) ==
  NodeLine(sanitizeId(step.id), nodeShape(step.type), escapeLabel(step.label),
           cssClasses(step))

\* The callback of actorOrder.forEach without the return of line 71.
swimlaneOfEveryActor(doc, actor) ==
  LET steps == SelectSeq(doc.steps, LAMBDA s : s.actorId = actor.id)
      swimlaneLabel == IF Truthy(actor.department)
                       THEN TemplateText(actor.name) \o <<" ", "-", " ">> \o actor.department
                       ELSE TemplateText(actor.name)
  IN  <<SubgraphLine(sanitizeId(actor.id), swimlaneLabel)>>
      \o [i \in 1..Len(steps) |-> buildNodeDefinition(steps[i])]
      \o <<EndLine, BlankLine>>

\* Lines 69-88: the callback of actorOrder.forEach.
swimlane(doc, actor) ==
  LET steps == SelectSeq(doc.steps, LAMBDA s : s.actorId = actor.id)
      swimlaneLabel == IF Truthy(actor.department)
                       THEN TemplateText(actor.name) \o <<" ", "-", " ">> \o actor.department
                       ELSE TemplateText(actor.name)
  IN  IF Len(steps) = 0
      THEN <<>>
      ELSE <<SubgraphLine(sanitizeId(actor.id), swimlaneLabel)>>
           \o [i \in 1..Len(steps) |-> buildNodeDefinition(steps[i])]
           \o <<EndLine, BlankLine>>

\* Lines 53-91.
buildSwimlanes(doc) ==
  LET actorOrder == getActorOrderByFlow(doc)
  IN  Concat([i \in 1..Len(actorOrder) |-> swimlane(doc, actorOrder[i])])

\* The callback of json.flows.forEach with flow.type as the condition.
flowLineByType(flow) ==
  IF flow.type = "conditional"
  THEN EdgeLine(sanitizeId(flow.from), sanitizeId(flow.to), TRUE,
                escapeLabel(TemplateText(flow.label)))
  ELSE EdgeLine(sanitizeId(flow.from), sanitizeId(flow.to), FALSE, <<>>)

\* Lines 155-167: the callback of json.flows.forEach.
flowLine(flow) ==
  IF Truthy(flow.label)
  THEN EdgeLine(sanitizeId(flow.from), sanitizeId(flow.to), TRUE, escapeLabel(flow.label))
  ELSE EdgeLine(sanitizeId(flow.from), sanitizeId(flow.to), FALSE, <<>>)

\* Lines 147-170.
buildFlows(doc) == [i \in 1..Len(doc.flows) |-> flowLine(doc.flows[i])]

\* Lines 178-183.
buildStyles == <<ClassDefLine("controlStyle"), ClassDefLine("riskStyle")>>

\* Line 22: !json || !json.actors || !json.steps
invalidProcessSchema(doc) ==
  doc.absent \/ doc.actorsKind = "missing" \/ doc.stepsKind = "missing"

\* The statements after line 22 that throw a TypeError: forEach/find on a
\* collection that is no array (lines 58, 196, 230, 245), and
\* sanitizeId/escapeLabel on an undefined id or label of an emitted
\* statement (lines 78, 103, 104, 156, 157).
generateTypeError(doc) ==
  \/ doc.stepsKind = "object"
  \/ doc.actorsKind = "object"
  \/ doc.flowsKind # "array"
  \/ \E i \in 1..Len(doc.actors) :
       /\ \E j \in 1..Len(doc.steps) : doc.steps[j].actorId = doc.actors[i].id
       /\ \/ ReplaceThrows(doc.actors[i].id)
          \/ \E j \in 1..Len(doc.steps) :
               /\ doc.steps[j].actorId = doc.actors[i].id
               /\ ReplaceThrows(doc.steps[j].id) \/ ReplaceThrows(doc.steps[j].label)
  \/ \E i \in 1..Len(doc.flows) :
       ReplaceThrows(doc.flows[i].from) \/ ReplaceThrows(doc.flows[i].to)

\* Lines 26-46 on a document on which no statement throws.
generatedLines(doc) ==
  <<HeaderLine, BlankLine>>
  \o buildSwimlanes(doc) \o <<BlankLine>>
  \o buildFlows(doc) \o <<BlankLine>>
  \o buildStyles

\* The outcome of generateMermaidFromJson(json): threw is "none", "Error"
\* (the 'Invalid ProcessSchema' error) or "TypeError".
generateMermaidFromJson(doc) ==
  IF invalidProcessSchema(doc) THEN [threw |-> "Error", lines |-> <<>>]
  ELSE IF generateTypeError(doc) THEN [threw |-> "TypeError", lines |-> <<>>]
  ELSE [threw |-> "none", lines |-> generatedLines(doc)]

---------------------------------------------------------------------------
(* The documents the functions are applied to.                             *)

\* Sequences over the set S of length at most n.
SeqsUpTo(S, n) == UNION {[1..m -> S] : m \in 0..n}

\* Identifiers and texts.
EMP == <<"e","m","p">>
MGR == <<"m","g","r">>
FIN == <<"f","-","1">>
ZZZ == <<"z">>
S1 == <<"s","1">>
S2 == <<"s","2">>
S3 == <<"s","3">>
S4 == <<"s","4">>
XX == <<"x">>
KW_START == <<"s","t","a","r","t">>
KW_END == <<"E","n","d">>
KW_GRAPH == <<"g","r","a","p","h">>
KW_CLASS == <<"C","L","A","S","S">>
SPECIAL == <<"a","@","1","!">>
NAME == <<"N">>
DEPT == <<"D">>
LABEL == <<"L">>
QUOTED == <<"a","\"","b","\n">>
PID == <<"1">>

\* Lists of actors: none, two well-formed actors, actors that lack an id or
\* a name, an actor whose id is a reserved keyword.
ActorLists ==
  { <<>>,
    <<Actor(EMP, NAME, Undefined), Actor(MGR, NAME, DEPT)>>,
    <<Actor(<<>>, <<>>, Undefined), Actor(EMP, Undefined, <<>>)>>,
    <<Actor(Undefined, NAME, Undefined), Actor(KW_GRAPH, NAME, DEPT)>> }

StepFamilySteps ==
  { Step(S1, "start", LABEL, EMP, <<>>, <<>>),
    Step(S2, "end", LABEL, MGR, <<>>, <<>>),
    Step(S1, "action", QUOTED, MGR, <<XX>>, <<>>),
    Step(KW_END, "end", LABEL, EMP, <<>>, <<XX>>),
    Step(KW_START, "decision", LABEL, KW_GRAPH, <<XX>>, <<XX>>),
    Step(S3, "start", LABEL, MGR, <<>>, <<>>) }

StepFamilyActors ==
  <<Actor(EMP, NAME, Undefined), Actor(MGR, NAME, DEPT), Actor(KW_GRAPH, QUOTED, DEPT)>>

\* The steps family: documents that differ in their steps.
StepFamily ==
  { Doc(NAME, PID, StepFamilyActors, steps, <<>>) :
      steps \in SeqsUpTo(StepFamilySteps, MaxSteps) }

\* The required-fields family: documents with a step, an actor or a flow
\* that lacks required properties (empty or undefined) or has a type
\* outside the enumeration.
DefectiveSteps ==
  { Step(<<>>, "", <<>>, <<>>, <<>>, <<>>),
    Step(Undefined, "other", Undefined, Undefined, <<>>, <<>>),
    Step(S3, "action", <<>>, EMP, <<>>, <<>>),
    Step(S3, "other", LABEL, EMP, <<>>, <<>>),
    Step(S3, "decision", LABEL, MGR, <<>>, <<>>) }

RequiredFamilySteps ==
  { <<d>> : d \in DefectiveSteps }
  \cup { << Step(S1, "start", LABEL, EMP, <<>>, <<>>), d,
           Step(S2, "end", LABEL, MGR, <<>>, <<>>) >> : d \in DefectiveSteps }
  \cup { <<d, e>> : d, e \in DefectiveSteps }

RequiredFamilyFlows ==
  { <<>>,
    <<Flow(S1, S2, Undefined, "normal")>>,
    <<Flow(<<>>, S2, Undefined, "normal"), Flow(S1, Undefined, LABEL, "normal")>> }

RequiredFamily ==
  { Doc(NAME, PID, actors, steps, flows) :
      actors \in ActorLists, steps \in RequiredFamilySteps,
      flows \in RequiredFamilyFlows }

\* The flows family: documents that differ in their flows.
FlowFamilySteps ==
  { << Step(S1, "start", LABEL, EMP, <<>>, <<>>),
       Step(S2, "decision", LABEL, MGR, <<>>, <<>>),
       Step(S3, "end", LABEL, MGR, <<>>, <<>>) >>,
    << Step(KW_START, "start", LABEL, EMP, <<>>, <<>>),
       Step(SPECIAL, "action", LABEL, EMP, <<>>, <<>>),
       Step(KW_END, "end", LABEL, KW_CLASS, <<>>, <<>>) >> }

FlowFamilyFlows ==
  { Flow(S1, S2, Undefined, "normal"),
    Flow(S2, S3, LABEL, "conditional"),
    Flow(S2, S1, <<>>, "conditional"),
    Flow(KW_START, SPECIAL, QUOTED, "normal"),
    Flow(SPECIAL, KW_END, Undefined, "conditional"),
    Flow(S1, XX, LABEL, "normal"),
    Flow(<<>>, Undefined, Undefined, "normal") }

FlowFamilyActors ==
  <<Actor(EMP, NAME, DEPT), Actor(MGR, NAME, Undefined), Actor(KW_CLASS, NAME, Undefined)>>

FlowFamily ==
  { Doc(NAME, PID, FlowFamilyActors, steps, flows) :
      steps \in FlowFamilySteps, flows \in SeqsUpTo(FlowFamilyFlows, MaxFlows) }

\* The order family: documents that differ in the order of their actors
\* and in their flow graph.
OrderFamilyActors ==
  { <<Actor(FIN, NAME, Undefined), Actor(MGR, NAME, Undefined), Actor(EMP, NAME, Undefined)>>,
    <<Actor(ZZZ, NAME, Undefined), Actor(MGR, NAME, Undefined), Actor(EMP, NAME, Undefined),
      Actor(FIN, NAME, Undefined), Actor(MGR, NAME, DEPT)>> }

OrderFamilySteps ==
  { << Step(S2, "action", LABEL, EMP, <<>>, <<>>),
       Step(S1, "start", LABEL, EMP, <<>>, <<>>),
       Step(S3, "decision", LABEL, MGR, <<>>, <<>>),
       Step(S4, "end", LABEL, FIN, <<>>, <<>>) >>,
    << Step(S2, "action", LABEL, FIN, <<>>, <<>>),
       Step(S1, "start", LABEL, MGR, <<>>, <<>>),
       Step(S3, "start", LABEL, EMP, <<>>, <<>>),
       Step(S4, "end", LABEL, XX, <<>>, <<>>) >> }

OrderFamilyFlows ==
  { Flow(S1, S2, Undefined, "normal"),
    Flow(S1, S3, Undefined, "normal"),
    Flow(S2, S4, Undefined, "normal"),
    Flow(S3, S4, Undefined, "normal"),
    Flow(S4, S1, Undefined, "normal"),
    Flow(S2, S2, Undefined, "normal") }

OrderFamily ==
  { Doc(NAME, PID, actors, steps, flows) :
      actors \in OrderFamilyActors, steps \in OrderFamilySteps,
      flows \in SeqsUpTo(OrderFamilyFlows, MaxEdges) }

\* The identifier family: well-formed documents that differ in the ids of
\* two steps and of their two actors; some of the ids differ only in
\* characters that sanitizeId replaces or in the prefix that it adds.
UNDER == <<"a","_","1","_">>
NODE_END == <<"n","o","d","e","_","E","n","d">>
NODE_CLASS == <<"n","o","d","e","_","C","L","A","S","S">>

StepIdPairs == { <<S2, S3>>, <<SPECIAL, UNDER>>, <<KW_END, NODE_END>> }
ActorIdPairs == { <<EMP, MGR>>, <<SPECIAL, UNDER>>, <<KW_CLASS, NODE_CLASS>> }

IdentifierFamily ==
  { Doc(NAME, PID,
        <<Actor(a[1], NAME, Undefined), Actor(a[2], NAME, DEPT)>>,
        << Step(S1, "start", LABEL, a[1], <<>>, <<>>),
           Step(x[1], "action", LABEL, a[1], <<>>, <<>>),
           Step(x[2], "end", LABEL, a[2], <<>>, <<>>) >>,
        << Flow(S1, x[1], Undefined, "normal"), Flow(x[1], x[2], Undefined, "normal") >>) :
      a \in ActorIdPairs, x \in StepIdPairs }

\* The shape family: documents that differ in the presence and the kind of
\* their top-level properties, and the absent document.
BaseActors == <<Actor(EMP, NAME, DEPT)>>
BaseSteps == << Step(S1, "start", LABEL, EMP, <<>>, <<>>),
               Step(S2, "end", LABEL, EMP, <<>>, <<>>) >>
BaseFlows == << Flow(S1, S2, Undefined, "normal") >>

Kinds == {"array", "missing", "object"}

\* null in the place of a document.
NullDocument ==
  [absent |-> TRUE, processName |-> Undefined, processId |-> Undefined,
   actorsKind |-> "missing", actors |-> <<>>,
   stepsKind |-> "missing", steps |-> <<>>,
   flowsKind |-> "missing", flows |-> <<>>]

ShapeFamily ==
  { [absent |-> ab, processName |-> pn, processId |-> pid,
     actorsKind |-> ak, actors |-> IF ak = "array" THEN BaseActors ELSE <<>>,
     stepsKind |-> sk, steps |-> IF sk = "array" THEN BaseSteps ELSE <<>>,
     flowsKind |-> fk, flows |-> IF fk = "array" THEN BaseFlows ELSE <<>>] :
      ab \in {FALSE}, pn \in {NAME, <<>>, Undefined}, pid \in {PID, <<>>},
      ak \in Kinds, sk \in Kinds, fk \in Kinds }
  \cup { NullDocument }

Documents ==
  StepFamily \cup RequiredFamily \cup FlowFamily \cup OrderFamily \cup ShapeFamily
    \cup IdentifierFamily

---------------------------------------------------------------------------
(* The state machine: a caller holds a document and applies the two        *)
(* functions to it.  vstatus and cstatus are "none" before the call and    *)
(* "returned" or "threw" after it.                                         *)

\* MermaidRenderer's renderError: null, the messages of the validation or
\* the message of a caught exception.
NoError == [kind |-> "null", messages |-> <<>>]
ValidationError(messages) == [kind |-> "validation", messages |-> messages]
ExceptionError(name) == [kind |-> "exception", messages |-> <<name>>]

\* The values of the variables of a part that is not running.
CallsIdle ==
  /\ json = NullDocument
  /\ vstatus = "none"
  /\ errors = <<>>
  /\ cstatus = "none"
  /\ lines = <<>>

\* containerRef.current is null; innerHTML = ''.
NoElement == 0
Blank == <<>>
Unmounted == [current |-> NoElement, innerHTML |-> Blank]

RendererIdle ==
  /\ processJson = NullDocument
  /\ mermaidCode = <<>>
  /\ renderError = NoError
  /\ calls = <<>>
  /\ containerRef = Unmounted
  /\ pending = <<>>
  /\ mounts = 0

\* retryAfter?: number is undefined.
NoRetryAfter == -1

\* data: null of a query that found no row.
NoRow == [id |-> 0, window_start |-> -1, request_count |-> 0]

NoResult ==
  [allowed |-> TRUE, limit |-> 0, remaining |-> 0, resetAt |-> 0, retryAfter |-> NoRetryAfter]

NoResponse == [status |-> 0, error |-> "none", retryAfter |-> NoRetryAfter]

\* A caller that has not called checkRateLimit.
IdleCall ==
  [pc |-> "idle", windowStart |-> 0, read |-> "none", existingLimit |-> NoRow,
   latest |-> NoRow, write |-> "none", result |-> NoResult]

\* The callers of checkRateLimit; the callers of a sequential run.
Callers == {"c1", "c2"}
SequentialCallers == {"c1"}

\* DEFAULT_CONFIG of rate-limiter.ts and the configuration that the
\* handler of openai-chat-v2 passes.
DEFAULT_CONFIG == [maxRequests |-> 20, windowMinutes |-> 5]
EndpointConfig == [maxRequests |-> 40, windowMinutes |-> 5]

LimiterIdle ==
  /\ rate_limits = <<>>
  /\ clock = 0
  /\ config = DEFAULT_CONFIG
  /\ credentials = TRUE
  /\ faults = FALSE
  /\ call = [p \in Callers |-> IdleCall]
  /\ response = [p \in Callers |-> NoResponse]
  /\ handled = 0
  /\ allowedCalls = 0

\* currentJSON is null; no assistant's message.
NoDocument == [t |-> "null"]
NoContent == <<>>
NoAssistant ==
  [content |-> NoContent, json |-> NoDocument, updated |-> FALSE,
   extractedJSON |-> NoDocument]

\* The value of useDebounce before the first setCurrentJSON: null.
InitialValue == [doc |-> NoDocument, change |-> 0]

DebounceIdle ==
  /\ current = InitialValue
  /\ debouncedValue = InitialValue
  /\ timeouts = {}
  /\ unchangedFor = 0
  /\ changes = 0
  /\ replacedEarly = {}

AppIdle ==
  /\ currentJSON = NoDocument
  /\ jsonSets = 0
  /\ chat = "idle"
  /\ assistant = NoAssistant
  /\ cause = "none"
  /\ turns = 0

Init ==
  /\ json \in Documents
  /\ vstatus = "none"
  /\ errors = <<>>
  /\ cstatus = "none"
  /\ lines = <<>>
  /\ RendererIdle
  /\ LimiterIdle
  /\ AppIdle /\ DebounceIdle

\* A function that stores the sanitized ids in the steps and the actors of
\* the document.
documentWithSanitizedIds(doc) ==
  [doc EXCEPT
     !.steps = [i \in 1..Len(doc.steps) |-> [doc.steps[i] EXCEPT !.id = sanitizeId(@)]],
     !.actors = [i \in 1..Len(doc.actors) |-> [doc.actors[i] EXCEPT !.id = sanitizeId(@)]]]

\* The document after validateProcessSchema(doc): lines 294-356 assign to
\* errors, stepIds, actorIds, startNodes and endNodes only, never to a
\* property of json.
documentAfterValidate(doc) == doc

\* The document after generateMermaidFromJson(doc): lines 17-288 assign to
\* local arrays, maps and sets only; sanitizeId and escapeLabel return new
\* strings.
documentAfterGenerate(doc) == doc

\* const validationErrors = validateProcessSchema(json)
Validate ==
  /\ vstatus = "none"
  /\ LET r == validateProcessSchema(json)
     IN  /\ vstatus' = IF r.threw THEN "threw" ELSE "returned"
         /\ errors' = r.errors
  /\ json' = documentAfterValidate(json)
  /\ UNCHANGED <<cstatus, lines>>
  /\ UNCHANGED <<rendererVars, limiterVars, appVars, debounceVars>>

\* const code = generateMermaidFromJson(json)
Compile ==
  /\ cstatus = "none"
  /\ LET r == generateMermaidFromJson(json)
     IN  /\ cstatus' = IF r.threw = "none" THEN "returned" ELSE r.threw
         /\ lines' = r.lines
  /\ json' = documentAfterGenerate(json)
  /\ UNCHANGED <<vstatus, errors>>
  /\ UNCHANGED <<rendererVars, limiterVars, appVars, debounceVars>>

\* validateProcessSchema(json) is called again.
ValidateAgain ==
  /\ vstatus # "none"
  /\ LET r == validateProcessSchema(json)
     IN  /\ vstatus' = IF r.threw THEN "threw" ELSE "returned"
         /\ errors' = r.errors
  /\ json' = documentAfterValidate(json)
  /\ UNCHANGED <<cstatus, lines>>
  /\ UNCHANGED <<rendererVars, limiterVars, appVars, debounceVars>>

\* generateMermaidFromJson(json) is called again.
CompileAgain ==
  /\ cstatus # "none"
  /\ LET r == generateMermaidFromJson(json)
     IN  /\ cstatus' = IF r.threw = "none" THEN "returned" ELSE r.threw
         /\ lines' = r.lines
  /\ json' = documentAfterGenerate(json)
  /\ UNCHANGED <<vstatus, errors>>
  /\ UNCHANGED <<rendererVars, limiterVars, appVars, debounceVars>>

Next == Validate \/ Compile \/ ValidateAgain \/ CompileAgain

Spec == Init /\ [][Next]_vars

---------------------------------------------------------------------------
(* MermaidRenderer (components/DiagramCanvas.tsx): the component receives  *)
(* a document in the prop processJson and its effect validates and         *)
(* compiles it.  calls is the trace of the effect: an entry for each run   *)
(* of the effect and for each call of the two functions, in order.         *)

\* The documents the component receives: null, two valid documents, two
\* documents with validation messages (one of which generateMermaidFromJson
\* would throw on) and a document the validation throws on.
ValidDocument == Doc(NAME, PID, BaseActors, BaseSteps, BaseFlows)

OtherValidDocument ==
  Doc(NAME, PID, <<Actor(EMP, NAME, DEPT), Actor(MGR, NAME, Undefined)>>,
      << Step(S1, "start", LABEL, EMP, <<>>, <<>>),
         Step(S2, "decision", LABEL, MGR, <<>>, <<>>),
         Step(S3, "end", LABEL, MGR, <<>>, <<>>) >>,
      << Flow(S1, S2, Undefined, "normal"), Flow(S2, S3, LABEL, "conditional") >>)

InvalidDocument == Doc(<<>>, PID, BaseActors, BaseSteps, <<Flow(S1, XX, Undefined, "normal")>>)

DocumentWithoutFlows == [ValidDocument EXCEPT !.flowsKind = "missing", !.flows = <<>>]

DocumentWithActorsObject == [ValidDocument EXCEPT !.actorsKind = "object", !.actors = <<>>]

RendererDocuments ==
  { NullDocument, ValidDocument, OtherValidDocument, InvalidDocument,
    DocumentWithoutFlows, DocumentWithActorsObject }

EffectEntry(doc) == [fn |-> "useEffect", doc |-> doc, threw |-> FALSE, errors |-> <<>>]

ValidateEntry(doc, r) ==
  [fn |-> "validateProcessSchema", doc |-> doc, threw |-> r.threw, errors |-> r.errors]

GenerateEntry(doc, r) ==
  [fn |-> "generateMermaidFromJson", doc |-> doc, threw |-> r.threw # "none",
   errors |-> <<>>]

\* The effect without the return of line 395.
generateEffectWithoutReturn(doc, code, trace) ==
  IF doc.absent
  THEN [mermaidCode |-> <<>>, renderError |-> NoError, calls |-> trace]
  ELSE LET v  == validateProcessSchema(doc)
           t1 == Append(trace, ValidateEntry(doc, v))
       IN  IF v.threw
           THEN [mermaidCode |-> code, renderError |-> ExceptionError("TypeError"),
                 calls |-> t1]
           ELSE LET g  == generateMermaidFromJson(doc)
                    t2 == Append(t1, GenerateEntry(doc, g))
                IN  IF g.threw # "none"
                    THEN [mermaidCode |-> code, renderError |-> ExceptionError(g.threw),
                          calls |-> t2]
                    ELSE [mermaidCode |-> g.lines, renderError |-> NoError, calls |-> t2]

\* Lines 383-406: the body of the effect on the document doc, with code the
\* current mermaidCode and trace the calls so far.
generateEffect(doc, code, trace) ==
  IF doc.absent
  THEN [mermaidCode |-> <<>>, renderError |-> NoError, calls |-> trace]
  ELSE LET v  == validateProcessSchema(doc)
           t1 == Append(trace, ValidateEntry(doc, v))
       IN  IF v.threw
           THEN [mermaidCode |-> code, renderError |-> ExceptionError("TypeError"),
                 calls |-> t1]
           ELSE IF Len(v.errors) > 0
           THEN [mermaidCode |-> code, renderError |-> ValidationError(v.errors),
                 calls |-> t1]
           ELSE LET g  == generateMermaidFromJson(doc)
                    t2 == Append(t1, GenerateEntry(doc, g))
                IN  IF g.threw # "none"
                    THEN [mermaidCode |-> code, renderError |-> ExceptionError(g.threw),
                          calls |-> t2]
                    ELSE [mermaidCode |-> g.lines, renderError |-> NoError, calls |-> t2]

\* The number of the runs of the effect.
Renders == Cardinality({i \in 1..Len(calls) : calls[i].fn = "useEffect"})

RendererInit == CallsIdle /\ RendererIdle /\ LimiterIdle /\ AppIdle /\ DebounceIdle

\* The svg that mermaid.render returns for the text code.
svgOf(code) == <<"<svg>">> \o code

\* Lines 524-561: the component returns the empty state without a document
\* and the error state with a renderError; only the last return holds the
\* container.
ShowsContainer(doc, error) == ~doc.absent /\ error = NoError

\* The container after the component has rendered with the document doc
\* and the error: the mounted element stays, an element that is no longer
\* returned is unmounted, and a container returned anew is a new, empty
\* element.  n is the number of the elements mounted before.
commit(ref, n, doc, error) ==
  IF ~ShowsContainer(doc, error) THEN [ref |-> Unmounted, mounts |-> n]
  ELSE IF ref.current # NoElement THEN [ref |-> ref, mounts |-> n]
  ELSE [ref |-> [current |-> n + 1, innerHTML |-> Blank], mounts |-> n + 1]

\* Lines 409-411 and 452: the effect of [mermaidCode] runs renderDiagram
\* when the text has changed, is not empty and a container is mounted.
startsRender(before, code, ref) ==
  code # before /\ code # <<>> /\ ref.current # NoElement

\* The component has rendered with the new processJson doc and the effect
\* of [processJson] has set the state r: the component is rendered again,
\* and the effect of [mermaidCode] clears the container and calls
\* mermaid.render (lines 413-426).
rendersAfterEffect(doc, r) ==
  LET c1 == commit(containerRef, mounts, doc, renderError)
      c2 == commit(c1.ref, c1.mounts, doc, r.renderError)
      starts == startsRender(mermaidCode, r.mermaidCode, c2.ref)
  IN  /\ processJson' = doc
      /\ mermaidCode' = r.mermaidCode
      /\ renderError' = r.renderError
      /\ calls' = r.calls
      /\ mounts' = c2.mounts
      /\ containerRef' = IF starts THEN [c2.ref EXCEPT !.innerHTML = Blank] ELSE c2.ref
      /\ pending' = IF starts
                    THEN Append(pending, [container |-> c2.ref.current,
                                          mermaidCode |-> r.mermaidCode])
                    ELSE pending

\* The component is rendered with a new processJson and the effect of
\* [processJson] runs; then the component is rendered with the state the
\* effect has set.
SetProcessJson(doc) ==
  /\ Renders < MaxRenders
  /\ rendersAfterEffect(doc, generateEffect(doc, mermaidCode,
                                            Append(calls, EffectEntry(doc))))
  /\ UNCHANGED <<callVars, limiterVars, appVars, debounceVars>>

\* The sequence s without its i-th entry.
WithoutRender(s, i) == SubSeq(s, 1, i - 1) \o SubSeq(s, i + 1, Len(s))

\* Lines 426-447: the i-th pending mermaid.render settles.  When it
\* resolves, the svg goes into the container that renderDiagram read from
\* containerRef before the await, and setRenderError(null) follows; when
\* it rejects, the message becomes the renderError.  The component is
\* rendered again with the new renderError.
RenderSettles(i, resolves) ==
  /\ i \in 1..Len(pending)
  /\ LET container == pending[i].container
         error == IF resolves THEN NoError ELSE ExceptionError("Error")
         ref   == IF resolves /\ container = containerRef.current
                  THEN [containerRef EXCEPT !.innerHTML = svgOf(pending[i].mermaidCode)]
                  ELSE containerRef
         c     == commit(ref, mounts, processJson, error)
     IN  /\ renderError' = error
         /\ containerRef' = c.ref
         /\ mounts' = c.mounts
  /\ pending' = WithoutRender(pending, i)
  /\ UNCHANGED <<processJson, mermaidCode, calls>>
  /\ UNCHANGED <<callVars, limiterVars, appVars, debounceVars>>

RendererNext ==
  \/ \E doc \in RendererDocuments : SetProcessJson(doc)
  \/ \E i \in 1..MaxRenders, resolves \in BOOLEAN : RenderSettles(i, resolves)

RendererSpec == RendererInit /\ [][RendererNext]_vars

---------------------------------------------------------------------------
(* The rate limiter (rate-limiter.ts) and the handler of openai-chat-v2.   *)
(* A call of checkRateLimit is two steps: the read of the session's row    *)
(* (up to the first await) and the rest, which decides and updates or      *)
(* inserts the row.  Time is counted in minutes.  The rows are those of    *)
(* one session and one endpoint; the id of a row is its position.          *)

\* The configurations of the direct calls of checkRateLimit.
LimiterConfigs ==
  {[maxRequests |-> m, windowMinutes |-> w] : m \in {1, 2, 3}, w \in {1, 2}}

\* The outcomes of a query of the store: it succeeds, it returns an error
\* or it throws; a write that throws was applied or was not.
ReadOutcomes == IF faults THEN {"ok", "error", "throws"} ELSE {"ok"}
WriteOutcomes ==
  IF faults THEN {"ok", "error", "throws, applied", "throws, not applied"} ELSE {"ok"}

\* The status of the response when the request passes the rate limit: 200,
\* or the status of the error of the OpenAI call (errorObj.status || 500).
OpenAIStatuses == {200, 429, 500}

Row(i) ==
  [id |-> i, window_start |-> rate_limits[i].window_start,
   request_count |-> rate_limits[i].request_count]

\* Lines 462-470: the rows with window_start >= windowStart, the latest
\* first, limited to one row.
LatestRows(windowStart) ==
  LET inWindow == {i \in 1..Len(rate_limits) : rate_limits[i].window_start >= windowStart}
  IN  {i \in inWindow :
         \A j \in inWindow : rate_limits[j].window_start <= rate_limits[i].window_start}

\* The latest row of the session, of whatever window.
LatestRow ==
  IF rate_limits = <<>> THEN NoRow
  ELSE Row(CHOOSE i \in 1..Len(rate_limits) :
             \A j \in 1..Len(rate_limits) :
               \/ rate_limits[j].window_start < rate_limits[i].window_start
               \/ rate_limits[j].window_start = rate_limits[i].window_start /\ j <= i)

\* The result that denies the request where the code allows it.
failClosed(cfg, now) ==
  [allowed |-> FALSE, limit |-> cfg.maxRequests, remaining |-> 0,
   resetAt |-> now + cfg.windowMinutes, retryAfter |-> NoRetryAfter]

\* Lines 445-450, 476-481, 568-573: 'Fail open'.
failOpen(cfg, now) ==
  [allowed |-> TRUE, limit |-> cfg.maxRequests, remaining |-> cfg.maxRequests,
   resetAt |-> now + cfg.windowMinutes, retryAfter |-> NoRetryAfter]

\* Lines 491-502: the limit is exceeded.  retryAfter is in seconds.
denied(cfg, existingLimit, now) ==
  LET resetAt    == existingLimit.window_start + cfg.windowMinutes
      retryAfter == (resetAt - now) * 60
  IN  [allowed |-> FALSE, limit |-> cfg.maxRequests, remaining |-> 0,
       resetAt |-> resetAt, retryAfter |-> IF retryAfter > 0 THEN retryAfter ELSE 0]

\* The allowed result that does not count the request itself.
allowedWithoutThisRequest(cfg, remaining, resetAt) ==
  [allowed |-> TRUE, limit |-> cfg.maxRequests, remaining |-> remaining + 1,
   resetAt |-> resetAt, retryAfter |-> NoRetryAfter]

\* Lines 516-521 and 524-529, 550-555 and 558-563.
allowed(cfg, remaining, resetAt) ==
  [allowed |-> TRUE, limit |-> cfg.maxRequests, remaining |-> remaining,
   resetAt |-> resetAt, retryAfter |-> NoRetryAfter]

\* The call of the caller p returns the result.
Return(p, c, result) ==
  /\ call' = [call EXCEPT ![p] = [c EXCEPT !.pc = "done", !.result = result]]
  /\ handled' = handled + 1
  /\ allowedCalls' = IF result.allowed THEN allowedCalls + 1 ELSE allowedCalls

\* Lines 436-482: checkRateLimit up to the result of the read.
Fetch(p, outcome) ==
  /\ call[p].pc \in {"idle", "done"}
  /\ LET windowStart == clock - config.windowMinutes
         c == [IdleCall EXCEPT !.windowStart = windowStart, !.latest = LatestRow]
     IN  IF ~credentials
         THEN Return(p, [c EXCEPT !.read = "unconfigured"], failOpen(config, clock))
         ELSE IF outcome # "ok"
         THEN Return(p, [c EXCEPT !.read = outcome], failOpen(config, clock))
         ELSE /\ IF LatestRows(windowStart) = {}
                 THEN call' = [call EXCEPT ![p] = [c EXCEPT !.pc = "fetched", !.read = "empty"]]
                 ELSE \E i \in LatestRows(windowStart) :
                        call' = [call EXCEPT ![p] =
                                   [c EXCEPT !.pc = "fetched", !.read = "row",
                                             !.existingLimit = Row(i)]]
              /\ UNCHANGED <<handled, allowedCalls>>
  /\ UNCHANGED <<rate_limits, clock, config, credentials, faults>>

\* Lines 484-574: checkRateLimit after the read.
Complete(p, outcome) ==
  /\ call[p].pc = "fetched"
  /\ LET c   == [call[p] EXCEPT !.write = outcome]
         e   == call[p].existingLimit
         now == clock
         max == config.maxRequests
     IN  IF call[p].read = "row"
         THEN LET resetAt == e.window_start + config.windowMinutes
                  updated == [rate_limits EXCEPT ![e.id].request_count = e.request_count + 1]
              IN  IF e.request_count >= max
                  THEN /\ Return(p, call[p], denied(config, e, now))
                       /\ UNCHANGED rate_limits
                  ELSE CASE outcome = "ok" ->
                              /\ rate_limits' = updated
                              /\ Return(p, c, allowed(config, max - e.request_count - 1, resetAt))
                         [] outcome = "error" ->
                              /\ UNCHANGED rate_limits
                              /\ Return(p, c, allowed(config, max - e.request_count, resetAt))
                         [] outcome = "throws, applied" ->
                              /\ rate_limits' = updated
                              /\ Return(p, c, failOpen(config, now))
                         [] OTHER ->
                              /\ UNCHANGED rate_limits
                              /\ Return(p, c, failOpen(config, now))
         ELSE LET resetAt  == now + config.windowMinutes
                  inserted == Append(rate_limits, [window_start |-> now, request_count |-> 1])
              IN  CASE outcome = "ok" ->
                         /\ rate_limits' = inserted
                         /\ Return(p, c, allowed(config, max - 1, resetAt))
                    [] outcome = "error" ->
                         /\ UNCHANGED rate_limits
                         /\ Return(p, c, allowed(config, max - 1, resetAt))
                    [] outcome = "throws, applied" ->
                         /\ rate_limits' = inserted
                         /\ Return(p, c, failOpen(config, now))
                    [] OTHER ->
                         /\ UNCHANGED rate_limits
                         /\ Return(p, c, failOpen(config, now))
  /\ UNCHANGED <<clock, config, credentials, faults>>

\* A minute passes.
Tick ==
  /\ clock < MaxClock
  /\ clock' = clock + 1
  /\ UNCHANGED <<rate_limits, config, credentials, faults, call, response,
                 handled, allowedCalls>>
  /\ UNCHANGED <<callVars, rendererVars, appVars, debounceVars>>

\* The calls that have begun.
Started == handled + Cardinality({p \in Callers : call[p].pc = "fetched"})

\* A caller calls checkRateLimit(sessionId, config).
CheckRateLimit(p) ==
  /\ Started < MaxCalls
  /\ \E outcome \in ReadOutcomes : Fetch(p, outcome)
  /\ UNCHANGED response
  /\ UNCHANGED <<callVars, rendererVars, appVars, debounceVars>>

\* The call goes on after the read.
CheckRateLimitResumes(p) ==
  /\ \E outcome \in WriteOutcomes : Complete(p, outcome)
  /\ UNCHANGED response
  /\ UNCHANGED <<callVars, rendererVars, appVars, debounceVars>>

LimiterInit ==
  /\ CallsIdle /\ RendererIdle /\ AppIdle /\ DebounceIdle
  /\ rate_limits = <<>>
  /\ clock = 0
  /\ config \in LimiterConfigs
  /\ credentials \in BOOLEAN
  /\ faults \in BOOLEAN
  /\ call = [p \in Callers |-> IdleCall]
  /\ response = [p \in Callers |-> NoResponse]
  /\ handled = 0
  /\ allowedCalls = 0

LimiterNext ==
  \/ \E p \in SequentialCallers : CheckRateLimit(p)
  \/ \E p \in SequentialCallers : CheckRateLimitResumes(p)
  \/ Tick

LimiterSpec == LimiterInit /\ [][LimiterNext]_vars

\* Concurrent calls of checkRateLimit for one session and one endpoint
\* (two requests in two invocations of the function), with a working store:
\* the steps of the two calls interleave at the await of the read.
ConcurrentInit ==
  /\ CallsIdle /\ RendererIdle /\ AppIdle /\ DebounceIdle
  /\ rate_limits = <<>>
  /\ clock = 0
  /\ config \in LimiterConfigs
  /\ credentials = TRUE
  /\ faults = FALSE
  /\ call = [p \in Callers |-> IdleCall]
  /\ response = [p \in Callers |-> NoResponse]
  /\ handled = 0
  /\ allowedCalls = 0

ConcurrentNext ==
  \/ \E p \in Callers : CheckRateLimit(p)
  \/ \E p \in Callers : CheckRateLimitResumes(p)
  \/ Tick

ConcurrentSpec == ConcurrentInit /\ [][ConcurrentNext]_vars

\* part_002, lines 206-227 and 278-325: the response of the handler to a
\* request with the result of checkRateLimit; status is the outcome of
\* the OpenAI call of a request that passes.
handlerResponse(result, status) ==
  IF ~result.allowed
  THEN [status |-> 429, error |-> "Rate limit exceeded", retryAfter |-> result.retryAfter]
  ELSE IF status = 200
  THEN [status |-> 200, error |-> "none", retryAfter |-> result.retryAfter]
  ELSE [status |-> status, error |-> "OpenAI", retryAfter |-> NoRetryAfter]

\* The response is sent when the call of checkRateLimit has returned.
Respond(p, status) ==
  response' = IF call'[p].pc = "done"
              THEN [response EXCEPT ![p] = handlerResponse(call'[p].result, status)]
              ELSE response

\* The handler receives a request of the session and calls checkRateLimit.
ReceiveRequest(p) ==
  /\ Started < MaxSent
  /\ \E outcome \in ReadOutcomes : Fetch(p, outcome)
  /\ \E status \in OpenAIStatuses : Respond(p, status)
  /\ UNCHANGED <<callVars, rendererVars, appVars, debounceVars>>

\* checkRateLimit returns to the handler, which answers the request.
AnswerRequest(p) ==
  /\ \E outcome \in WriteOutcomes : Complete(p, outcome)
  /\ \E status \in OpenAIStatuses : Respond(p, status)
  /\ UNCHANGED <<callVars, rendererVars, appVars, debounceVars>>

\* The endpoint with a working store, its requests handled one after
\* another.
EndpointInit ==
  /\ CallsIdle /\ RendererIdle /\ AppIdle /\ DebounceIdle
  /\ rate_limits = <<>>
  /\ clock = 0
  /\ config = EndpointConfig
  /\ credentials = TRUE
  /\ faults = FALSE
  /\ call = [p \in Callers |-> IdleCall]
  /\ response = [p \in Callers |-> NoResponse]
  /\ handled = 0
  /\ allowedCalls = 0

EndpointNext ==
  \/ \E p \in SequentialCallers : ReceiveRequest(p)
  \/ \E p \in SequentialCallers : AnswerRequest(p)
  \/ Tick

EndpointSpec == EndpointInit /\ [][EndpointNext]_vars

---------------------------------------------------------------------------
(* AppV2 (AppV2.tsx) and sendMessage / extractJSON (services/openai-v2).   *)
(* The content of an assistant's message is a sequence of lines; a JSON    *)
(* value is the record of what isProcessSchema and the handlers look at.   *)

\* The array properties that isProcessSchema requires.
SchemaArrays == {"actors", "steps", "decisions", "controls", "risks", "flows"}

\* Parsed JSON values: two process documents (one with an empty processId)
\* and an object that lacks the property decisions.
ParsedA ==
  [t |-> "object", processName |-> NAME, processId |-> PID, lastUpdated |-> 0,
   arrays |-> SchemaArrays]
ParsedB ==
  [t |-> "object", processName |-> LABEL, processId |-> <<>>, lastUpdated |-> 0,
   arrays |-> SchemaArrays]
ParsedOther ==
  [t |-> "object", processName |-> NAME, processId |-> PID, lastUpdated |-> 0,
   arrays |-> SchemaArrays \ {"decisions"}]
ParsedNameless ==
  [t |-> "object", processName |-> <<>>, processId |-> PID, lastUpdated |-> 0,
   arrays |-> SchemaArrays]

\* The lines of a message: a line of prose that holds a tag, the opening
\* line of a json fence with or without the tag <UPDATED> after it, the
\* line three backticks and a line of JSON text: well-formed, with a
\* trailing comma before the last brace, or malformed.
Tags == {"none", "<UPDATED>", "<UNCHANGED>"}
TextLine(tag) == [k |-> "text", tag |-> tag, value |-> NoDocument, defect |-> "none"]
FenceOpen(tag) == [k |-> "fence json", tag |-> tag, value |-> NoDocument, defect |-> "none"]
FenceClose == [k |-> "fence", tag |-> "none", value |-> NoDocument, defect |-> "none"]
JsonText(value, defect) == [k |-> "json", tag |-> "none", value |-> value, defect |-> defect]

ContentLines ==
  {TextLine(tag) : tag \in Tags \ {"none"}}
    \cup {FenceOpen(tag) : tag \in Tags \ {"<UNCHANGED>"}} \cup {FenceClose}
    \cup { JsonText(ParsedA, "none"), JsonText(ParsedA, "trailing comma"),
           JsonText(ParsedOther, "none"), JsonText(ParsedA, "malformed") }

Contents == SeqsUpTo(ContentLines, MaxContentLines)

\* content.includes(tag)
includes(content, tag) == \E i \in 1..Len(content) : content[i].tag = tag

\* A line that begins with three backticks.
BeginsFence(line) == line.k \in {"fence json", "fence"}

\* The first line at or after from that begins with three backticks, 0 if none.
FenceAfter(content, from) ==
  IF \E j \in from..Len(content) : BeginsFence(content[j])
  THEN CHOOSE j \in from..Len(content) :
         BeginsFence(content[j]) /\ \A m \in from..(j - 1) : ~BeginsFence(content[m])
  ELSE 0

\* The match of the regular expression of line 51 that begins
\* in line i: the lines of the group, or no match.  The tag may stand in
\* the opening line or alone in the next line; the group is at least one
\* line and ends before the first later line that begins with three backticks.
matchAt(content, i) ==
  LET opens == content[i].k = "fence json" /\ content[i].tag \in {"none", "<UPDATED>"}
      tagLine == /\ content[i].tag = "none" /\ i < Len(content)
                 /\ content[i + 1] = TextLine("<UPDATED>")
      late  == IF tagLine THEN FenceAfter(content, i + 3) ELSE 0
      early == FenceAfter(content, i + 2)
  IN  IF ~opens THEN [found |-> FALSE, group |-> <<>>]
      ELSE IF late # 0 THEN [found |-> TRUE, group |-> SubSeq(content, i + 2, late - 1)]
      ELSE IF early # 0 THEN [found |-> TRUE, group |-> SubSeq(content, i + 1, early - 1)]
      ELSE [found |-> FALSE, group |-> <<>>]

\* content.match(...): the leftmost match.
jsonMatch(content) ==
  IF \E i \in 1..Len(content) : matchAt(content, i).found
  THEN matchAt(content, CHOOSE i \in 1..Len(content) :
                 matchAt(content, i).found /\ \A m \in 1..(i - 1) : ~matchAt(content, m).found)
  ELSE [found |-> FALSE, group |-> <<>>]

\* JSON.parse(text): the value, or a SyntaxError.
JSONparse(text) ==
  IF Len(text) = 1 /\ text[1].k = "json" /\ text[1].defect = "none"
  THEN [threw |-> FALSE, value |-> text[1].value]
  ELSE [threw |-> TRUE, value |-> NoDocument]

\* Lines 95-106: attemptJSONRepair removes the trailing commas.
attemptJSONRepair(text) ==
  [i \in 1..Len(text) |->
     IF text[i].k = "json" /\ text[i].defect = "trailing comma"
     THEN [text[i] EXCEPT !.defect = "none"] ELSE text[i]]

\* processSchema.ts, lines 104-117.
isProcessSchema(obj) ==
  /\ obj.t = "object"
  /\ obj.processName # Undefined
  /\ obj.processId # Undefined
  /\ SchemaArrays \subseteq obj.arrays

\* The flag that ignores the tag <UNCHANGED>.
updatedIgnoringUnchanged(hasUpdatedTag, hasUnchangedTag) == TRUE

\* Line 65: hasUpdatedTag || (!hasUnchangedTag && parsed !== null), parsed
\* being an object here.
updatedFlag(hasUpdatedTag, hasUnchangedTag) == hasUpdatedTag \/ ~hasUnchangedTag

\* Lines 45-89.
extractJSON(content) ==
  LET hasUpdatedTag   == includes(content, "<UPDATED>")
      hasUnchangedTag == includes(content, "<UNCHANGED>")
      m        == jsonMatch(content)
      parsed   == JSONparse(m.group)
      repaired == JSONparse(attemptJSONRepair(m.group))
  IN  IF ~m.found THEN [json |-> NoDocument, updated |-> hasUpdatedTag]
      ELSE IF ~parsed.threw
      THEN IF ~isProcessSchema(parsed.value)
           THEN [json |-> NoDocument, updated |-> FALSE]
           ELSE [json |-> parsed.value,
                 updated |-> updatedFlag(hasUpdatedTag, hasUnchangedTag)]
      ELSE IF ~repaired.threw /\ isProcessSchema(repaired.value)
      THEN [json |-> repaired.value, updated |-> hasUpdatedTag]
      ELSE [json |-> NoDocument, updated |-> FALSE]

\* Lines 165-185: what sendMessage returns for the content of the
\* assistant's message.
sendMessage(content) ==
  LET r == extractJSON(content)
  IN  [content |-> content, json |-> r.json, updated |-> r.updated,
       extractedJSON |-> IF r.updated THEN r.json ELSE NoDocument]

\* uuidv4()
Uuid == <<"u","u","i","d">>

\* AppV2.tsx, lines 78-82: the document that handleSendMessage stores.
processJsonOf(extracted, now) ==
  [extracted EXCEPT !.processId = IF Truthy(@) THEN @ ELSE Uuid, !.lastUpdated = now]

\* The user's actions so far are fewer than MaxTurns.
MayAct == turns < MaxTurns

\* handleSendMessage up to await sendMessage(...).
HandleSendMessage ==
  /\ MayAct /\ chat = "idle"
  /\ chat' = "awaiting"
  /\ turns' = turns + 1
  /\ cause' = "handleSendMessage"
  /\ assistant' = NoAssistant
  /\ UNCHANGED <<currentJSON, jsonSets>>
  /\ UNCHANGED <<callVars, rendererVars, limiterVars, debounceVars>>

\* sendMessage receives the response of the endpoint, with the content of
\* the assistant's message, and returns.
SendMessageReturns(content) ==
  /\ chat' = "responded"
  /\ assistant' = sendMessage(content)
  /\ cause' = "sendMessage"
  /\ UNCHANGED <<currentJSON, jsonSets, turns>>
  /\ UNCHANGED <<callVars, rendererVars, limiterVars, debounceVars>>

\* sendMessage throws (a response that is not ok, a network error):
\* handleSendMessage shows the error message (lines 99-130).
SendMessageThrows ==
  /\ chat = "awaiting"
  /\ chat' = "idle"
  /\ assistant' = NoAssistant
  /\ cause' = "catch"
  /\ UNCHANGED <<currentJSON, jsonSets, turns>>
  /\ UNCHANGED <<callVars, rendererVars, limiterVars, debounceVars>>

\* handleSendMessage after await sendMessage(...), lines 69-98.
HandleResponse ==
  /\ chat = "responded"
  /\ chat' = "idle"
  /\ cause' = "response"
  /\ IF assistant.updated /\ assistant.extractedJSON # NoDocument
     THEN /\ currentJSON' = processJsonOf(assistant.extractedJSON, turns)
          /\ jsonSets' = jsonSets + 1
     ELSE UNCHANGED <<currentJSON, jsonSets>>
  /\ UNCHANGED <<assistant, turns>>
  /\ UNCHANGED <<callVars, rendererVars, limiterVars, debounceVars>>

\* The continuation of handleSendMessage runs when sendMessage has returned,
\* before any other event handler of the user.
NoPendingContinuation == chat # "responded"

\* handleStartOver, lines 135-142.
HandleStartOver ==
  /\ MayAct /\ NoPendingContinuation
  /\ currentJSON' = NoDocument
  /\ jsonSets' = jsonSets + 1
  /\ turns' = turns + 1
  /\ cause' = "handleStartOver"
  /\ assistant' = NoAssistant
  /\ UNCHANGED chat
  /\ UNCHANGED <<callVars, rendererVars, limiterVars, debounceVars>>

\* The objects the user uploads.
Uploads == {ParsedB, ParsedOther, ParsedNameless}

\* handleJSONUpload, lines 161-186.
HandleJSONUpload(uploaded) ==
  /\ MayAct /\ NoPendingContinuation
  /\ IF ~Truthy(uploaded.processName) \/ ~({"actors", "steps"} \subseteq uploaded.arrays)
     THEN UNCHANGED <<currentJSON, jsonSets>>
     ELSE /\ currentJSON' = uploaded
          /\ jsonSets' = jsonSets + 1
  /\ turns' = turns + 1
  /\ cause' = "handleJSONUpload"
  /\ assistant' = NoAssistant
  /\ UNCHANGED chat
  /\ UNCHANGED <<callVars, rendererVars, limiterVars, debounceVars>>

\* The endpoint answers the request with some content.
ReceiveResponse ==
  /\ chat = "awaiting"
  /\ \E content \in Contents : SendMessageReturns(content)

AppInit == CallsIdle /\ RendererIdle /\ LimiterIdle /\ AppIdle /\ DebounceIdle

AppNext ==
  \/ HandleSendMessage
  \/ ReceiveResponse
  \/ SendMessageThrows
  \/ HandleResponse
  \/ HandleStartOver
  \/ \E uploaded \in Uploads : HandleJSONUpload(uploaded)

AppSpec == AppInit /\ [][AppNext]_vars

---------------------------------------------------------------------------
(* useDebounce (AppV2.tsx, lines 16-31) as AppV2 calls it in line 40.  Time *)
(* is counted in milliseconds and passes in steps of delay / TicksPerDelay. *)

\* Line 40: useDebounce(currentJSON, 300).
delay == 300

TickMs == delay \div TicksPerDelay

\* The documents that setCurrentJSON receives.
DebouncedDocuments == {NoDocument, ParsedA, ParsedB}

\* The timeout that the effect sets for the value v (lines 21-23); the
\* number of the change of v identifies the handler.
timeoutOf(v) == [handler |-> v.change, value |-> v, elapsed |-> 0]

\* A cleanup that leaves the timeout set.
clearNothing(set, handler) == set

\* Line 26: clearTimeout(handler).
clearTimeout(set, handler) == {t \in set : t.handler # handler}

\* After the time ms the clock of a timeout, which matters up to delay.
later(elapsed) == IF elapsed + TickMs >= delay THEN delay ELSE elapsed + TickMs

\* AppV2 calls setCurrentJSON(doc): null when the document is null already
\* is no change of state; otherwise the component renders with the new
\* value, the cleanup of the effect of the old value runs and the effect
\* sets a timeout for the new value (lines 20-28).
SetCurrentJSON(doc) ==
  /\ changes < MaxChanges
  /\ ~(doc = NoDocument /\ current.doc = NoDocument)
  /\ LET v == [doc |-> doc, change |-> changes + 1]
     IN  /\ current' = v
         /\ timeouts' = clearTimeout(timeouts, current.change) \cup {timeoutOf(v)}
  /\ changes' = changes + 1
  /\ unchangedFor' = 0
  /\ replacedEarly' = IF unchangedFor < delay THEN replacedEarly \cup {current.change}
                      ELSE replacedEarly
  /\ UNCHANGED debouncedValue
  /\ UNCHANGED <<callVars, rendererVars, limiterVars, appVars>>

\* Time passes.
TimePasses ==
  /\ timeouts' = {[t EXCEPT !.elapsed = later(@)] : t \in timeouts}
  /\ unchangedFor' = later(unchangedFor)
  /\ UNCHANGED <<current, debouncedValue, changes, replacedEarly>>
  /\ UNCHANGED <<callVars, rendererVars, limiterVars, appVars>>

\* Lines 21-23: the callback of a timeout runs, delay or more after
\* setTimeout: setDebouncedValue(value), value being that of the effect.
TimeoutFires(t) ==
  /\ t \in timeouts /\ t.elapsed >= delay
  /\ debouncedValue' = t.value
  /\ timeouts' = timeouts \ {t}
  /\ UNCHANGED <<current, unchangedFor, changes, replacedEarly>>
  /\ UNCHANGED <<callVars, rendererVars, limiterVars, appVars>>

\* The timeouts that can fire.
Due == {t \in timeouts : t.elapsed >= delay}

\* AppV2 is mounted: useState(value) and the first run of the effect.
DebounceInit ==
  /\ CallsIdle /\ RendererIdle /\ LimiterIdle /\ AppIdle
  /\ current = InitialValue
  /\ debouncedValue = InitialValue
  /\ timeouts = {timeoutOf(InitialValue)}
  /\ unchangedFor = 0
  /\ changes = 0
  /\ replacedEarly = {}

DebounceNext ==
  \/ \E doc \in DebouncedDocuments : SetCurrentJSON(doc)
  \/ TimePasses
  \/ \E t \in Due : TimeoutFires(t)

DebounceSpec == DebounceInit /\ [][DebounceNext]_vars

\* The clock runs on and the event loop runs the callback of a timeout
\* that is due.
DebounceFairSpec ==
  /\ DebounceSpec
  /\ WF_vars(TimePasses)
  /\ WF_vars(\E t \in Due : TimeoutFires(t))

---------------------------------------------------------------------------
(* Properties.                                                             *)

Validated == vstatus = "returned"
Compiled == cstatus = "returned"

\* The number of the entries of errors equal to m.
Occurrences(m) == Cardinality({k \in 1..Len(errors) : errors[k] = m})

Reported(m) == \E k \in 1..Len(errors) : errors[k] = m

IsStepId(doc, id) == \E i \in 1..Len(doc.steps) : doc.steps[i].id = id
IsActorId(doc, id) == \E i \in 1..Len(doc.actors) : doc.actors[i].id = id

\* A ProcessDocument of the data model: the three collections are arrays
\* and the string properties hold strings.
IsProcessDocument(doc) ==
  /\ ~doc.absent
  /\ doc.actorsKind = "array" /\ doc.stepsKind = "array" /\ doc.flowsKind = "array"
  /\ doc.processName # Undefined /\ doc.processId # Undefined
  /\ \A i \in 1..Len(doc.actors) :
       doc.actors[i].id # Undefined /\ doc.actors[i].name # Undefined
  /\ \A i \in 1..Len(doc.steps) :
       /\ doc.steps[i].id # Undefined /\ doc.steps[i].label # Undefined
       /\ doc.steps[i].actorId # Undefined
       /\ doc.steps[i].type \in {"action", "decision", "start", "end"}
  /\ \A i \in 1..Len(doc.flows) :
       doc.flows[i].from # Undefined /\ doc.flows[i].to # Undefined

\* The invariants of the data model: exactly one start step, at least one
\* end step, unique step ids, resolving actor and step references.
SatisfiesInvariants(doc) ==
  /\ Count(doc.steps, LAMBDA s : s.type = "start") = 1
  /\ Count(doc.steps, LAMBDA s : s.type = "end") >= 1
  /\ \A i, j \in 1..Len(doc.steps) : doc.steps[i].id = doc.steps[j].id => i = j
  /\ \A i \in 1..Len(doc.steps) : IsActorId(doc, doc.steps[i].actorId)
  /\ \A i \in 1..Len(doc.flows) :
       IsStepId(doc, doc.flows[i].from) /\ IsStepId(doc, doc.flows[i].to)

\* The required texts are not empty.
RequiredFieldsPresent(doc) ==
  /\ doc.processName # <<>> /\ doc.processId # <<>>
  /\ \A i \in 1..Len(doc.actors) : doc.actors[i].id # <<>> /\ doc.actors[i].name # <<>>
  /\ \A i \in 1..Len(doc.steps) :
       doc.steps[i].id # <<>> /\ doc.steps[i].label # <<>> /\ doc.steps[i].actorId # <<>>
  /\ \A i \in 1..Len(doc.flows) : doc.flows[i].from # <<>> /\ doc.flows[i].to # <<>>

\* C1 as stated: validateProcessSchema returns the empty list for every
\* ProcessDocument that satisfies the invariants of the data model.
C1_ValidityRoundTrip_Original ==
  Validated /\ IsProcessDocument(json) /\ SatisfiesInvariants(json) => errors = <<>>

\* C1 amended: validateProcessSchema returns the empty list for every
\* ProcessDocument that satisfies the invariants of the data model and
\* whose required texts (processName, processId, the id and name of each
\* actor, the id, label and actorId of each step, the from and to of each
\* flow) are not empty.
C1_ValidityRoundTrip ==
  Validated /\ IsProcessDocument(json) /\ SatisfiesInvariants(json)
            /\ RequiredFieldsPresent(json)
    => errors = <<>>

C1_Witness ==
  /\ Validated /\ IsProcessDocument(json) /\ SatisfiesInvariants(json)
  /\ RequiredFieldsPresent(json)
  /\ Count(json.steps, LAMBDA s : s.type = "decision") >= 1
  /\ Len(json.flows) >= 2
  /\ errors = <<>>

\* C2: an empty validation result means the document is safe to compile:
\* whenever validateProcessSchema returned the empty list for a document,
\* generateMermaidFromJson on that document returns the diagram text and
\* does not throw.
C2_EmptyResultSafeToCompile ==
  Validated /\ errors = <<>> /\ cstatus # "none"
    => cstatus = "returned" /\ Len(lines) > 0

C2_Witness ==
  /\ Validated /\ errors = <<>> /\ Compiled
  /\ Len(json.flows) >= 1
  /\ \E i \in 1..Len(lines) : lines[i].k = "edge"

\* The identifiers of the group blocks of the text, in order.
GroupIds ==
  LET groups == SelectSeq(lines, LAMBDA l : l.k = "subgraph")
  IN  [i \in 1..Len(groups) |-> groups[i].id]

Indices(s) == [i \in 1..Len(s) |-> i]

\* The order in which the traversal visited the step ids.
Visited == traversal(json).visitedSteps

\* The index in json.actors of the actor of the step that has the id, 0
\* if there is no such step or actor.
ActorOfStepId(id) ==
  LET si == FindIndex(json.steps, LAMBDA s : s.id = id)
  IN  IF si = 0 THEN 0
      ELSE FindIndex(json.actors, LAMBDA a : a.id = json.steps[si].actorId)

\* The index of the actor of the start step, 0 if there is none.
StartActor ==
  LET si == FindIndex(json.steps, LAMBDA s : s.type = "start")
  IN  IF si = 0 THEN 0
      ELSE FindIndex(json.actors, LAMBDA a : a.id = json.steps[si].actorId)

\* The actors in the order the claim states, as indices of json.actors:
\* the start step's actor, then the actors in the order of their first
\* visited step, then the actors never reached in the order of json.actors.
ExpectedActorOrder ==
  LET met     == <<StartActor>> \o [i \in 1..Len(Visited) |-> ActorOfStepId(Visited[i])]
      first   == SelectSeq(Indices(met),
                   LAMBDA p : met[p] # 0 /\ \A q \in 1..(p - 1) : met[q] # met[p])
      reached == [k \in 1..Len(first) |-> met[first[k]]]
      rest    == SelectSeq(Indices(json.actors),
                   LAMBDA i : \A k \in 1..Len(reached) :
                                json.actors[reached[k]].id # json.actors[i].id)
  IN  reached \o rest

HasSteps(actorIndex) ==
  \E j \in 1..Len(json.steps) : json.steps[j].actorId = json.actors[actorIndex].id

\* The traversal starts at the start step, visits no step id twice and
\* visits exactly the step ids that the flows reach from the start step.
TraversalFollowsFlows ==
  LET si == FindIndex(json.steps, LAMBDA s : s.type = "start")
  IN  /\ si = 0 => Visited = <<>>
      /\ si # 0 => Len(Visited) >= 1 /\ Visited[1] = json.steps[si].id
      /\ \A i, j \in 1..Len(Visited) : Visited[i] = Visited[j] => i = j
      /\ \A i \in 2..Len(Visited) :
           \E f \in 1..Len(json.flows), j \in 1..(i - 1) :
             json.flows[f].from = Visited[j] /\ json.flows[f].to = Visited[i]
      /\ \A f \in 1..Len(json.flows) :
           json.flows[f].from \in Range(Visited) => json.flows[f].to \in Range(Visited)

\* C3: the group blocks of the text appear in the order: the start step's
\* actor, then each further actor in the order in which the traversal from
\* the start step first visits one of its steps, then the actors the
\* traversal never reached, in the order of json.actors (an actor without
\* steps has no block).
C3_SwimlaneOrder ==
  Compiled =>
    /\ TraversalFollowsFlows
    /\ LET blocks == SelectSeq(ExpectedActorOrder, HasSteps)
       IN  GroupIds = [k \in 1..Len(blocks) |-> sanitizeId(json.actors[blocks[k]].id)]
    /\ StartActor # 0 => Len(GroupIds) >= 1 /\ GroupIds[1] = sanitizeId(json.actors[StartActor].id)

\* The start step's actor EMP is declared last, the traversal visits s1,
\* s2, s4 (FIN) and then s3 (MGR), which the breadth-first order would
\* visit before s4.
C3_Witness ==
  /\ Compiled
  /\ Len(json.actors) = 3 /\ json.actors[1].id = FIN /\ json.actors[3].id = EMP
  /\ Visited = <<S1, S2, S4, S3>>
  /\ GroupIds = <<EMP, FIN, MGR>>

\* The identifiers of the text: of the group blocks, of the node
\* statements and of the two ends of the edge statements.
OutputIds ==
  {lines[i].id : i \in {n \in 1..Len(lines) : lines[n].k \in {"subgraph", "node"}}}
  \cup {lines[i].from : i \in {n \in 1..Len(lines) : lines[n].k = "edge"}}
  \cup {lines[i].to : i \in {n \in 1..Len(lines) : lines[n].k = "edge"}}

IsKeyword(id) == toLowerCase(id) \in RESERVED_KEYWORDS

\* The step ids and actor ids that the text refers to: of the steps and
\* the actors of the group blocks, and of the two ends of the flows.
EmittedIds ==
  {json.steps[i].id : i \in {n \in 1..Len(json.steps) : IsActorId(json, json.steps[n].actorId)}}
  \cup {json.actors[i].id : i \in {n \in 1..Len(json.actors) : HasSteps(n)}}
  \cup {json.flows[i].from : i \in 1..Len(json.flows)}
  \cup {json.flows[i].to : i \in 1..Len(json.flows)}

\* C4: no identifier of the text is a bare reserved keyword, in whatever
\* case; an id whose character-sanitized form is a reserved keyword occurs
\* in the text as that form with the prefix node_.
C4_KeywordCollision ==
  Compiled =>
    /\ \A id \in OutputIds : ~IsKeyword(id)
    /\ \A id \in EmittedIds :
         IsKeyword(replaceSpecial(id)) => NodePrefix \o replaceSpecial(id) \in OutputIds

\* A step with the id "End", a step with the id "start" and an actor with
\* the id "CLASS" are emitted, and a flow ends at "End".
C4_Witness ==
  /\ Compiled
  /\ \E i \in 1..Len(lines) : lines[i].k = "node" /\ lines[i].id = NodePrefix \o KW_END
  /\ \E i \in 1..Len(lines) : lines[i].k = "node" /\ lines[i].id = NodePrefix \o KW_START
  /\ \E i \in 1..Len(lines) : lines[i].k = "subgraph" /\ lines[i].id = NodePrefix \o KW_CLASS
  /\ \E i \in 1..Len(lines) : lines[i].k = "edge" /\ lines[i].to = NodePrefix \o KW_END

FlowFromMsg(i) ==
  MsgRef("flows[idx].from \"value\" references non-existent step", i - 1, json.flows[i].from)
FlowToMsg(i) ==
  MsgRef("flows[idx].to \"value\" references non-existent step", i - 1, json.flows[i].to)
StepActorMsg(i) ==
  MsgRef("steps[idx].actorId \"value\" references non-existent actor", i - 1,
         json.steps[i].actorId)

ReferenceMsgs ==
  {FlowFromMsg(i) : i \in 1..Len(json.flows)} \cup {FlowToMsg(i) : i \in 1..Len(json.flows)}
  \cup {StepActorMsg(i) : i \in 1..Len(json.steps)}

IsReferenceMsg(m) ==
  m.msg \in {"flows[idx].from \"value\" references non-existent step",
             "flows[idx].to \"value\" references non-existent step",
             "steps[idx].actorId \"value\" references non-existent actor"}

\* C5: the result holds a 'references non-existent' message, naming the
\* index, the field and the value, once for every flow whose non-empty
\* from or to is no step id and for every step whose non-empty actorId is
\* no actor id, and holds no such message for any other reference.
C5_ReferentialIntegrity ==
  Validated =>
    /\ \A i \in 1..Len(json.flows) :
         /\ Occurrences(FlowFromMsg(i)) =
              IF Truthy(json.flows[i].from) /\ ~IsStepId(json, json.flows[i].from) THEN 1 ELSE 0
         /\ Occurrences(FlowToMsg(i)) =
              IF Truthy(json.flows[i].to) /\ ~IsStepId(json, json.flows[i].to) THEN 1 ELSE 0
    /\ \A i \in 1..Len(json.steps) :
         Occurrences(StepActorMsg(i)) =
           IF Truthy(json.steps[i].actorId) /\ ~IsActorId(json, json.steps[i].actorId)
           THEN 1 ELSE 0
    /\ \A k \in 1..Len(errors) : IsReferenceMsg(errors[k]) => errors[k] \in ReferenceMsgs

\* A flow whose from resolves and whose to does not: one message, for to.
C5_Witness ==
  /\ Validated
  /\ \E i \in 1..Len(json.flows) :
       /\ IsStepId(json, json.flows[i].from) /\ Truthy(json.flows[i].to)
       /\ ~IsStepId(json, json.flows[i].to)
       /\ Reported(FlowToMsg(i)) /\ ~Reported(FlowFromMsg(i))
  /\ \E i \in 1..Len(json.flows) :
       IsStepId(json, json.flows[i].to) /\ ~Reported(FlowToMsg(i))

StartCount == Count(json.steps, LAMBDA s : s.type = "start")
EndCount == Count(json.steps, LAMBDA s : s.type = "end")

\* C6: the result holds 'Process must have exactly one start node' exactly
\* when no step has the type start, the '(found multiple)' message exactly
\* when more than one has, and neither when exactly one has.
C6_SingleStart ==
  Validated =>
    /\ Reported(Msg("Process must have exactly one start node")) <=> StartCount = 0
    /\ Reported(Msg("Process must have exactly one start node (found multiple)"))
         <=> StartCount > 1

C6_Witness ==
  /\ Validated
  /\ StartCount > 1
  /\ Reported(Msg("Process must have exactly one start node (found multiple)"))
  /\ ~Reported(Msg("Process must have exactly one start node"))

\* C7: the result holds 'Process must have at least one end node' exactly
\* when no step has the type end; two or more end steps cause no message.
C7_EndEnforcement ==
  Validated =>
    (Reported(Msg("Process must have at least one end node")) <=> EndCount = 0)

C7_Witness ==
  /\ Validated
  /\ EndCount >= 2
  /\ StartCount = 1
  /\ errors = <<>>

DuplicateMsg(id) == MsgRef("Duplicate step ID: value", -1, id)

StepsWithId(id) == Cardinality({i \in 1..Len(json.steps) : json.steps[i].id = id})

\* C8 as stated: for each id that occurs two or more times in json.steps
\* the result holds 'Duplicate step ID: {id}' exactly once, and for an id
\* that occurs once it holds no such message.
C8_DuplicateOnce_Original ==
  Validated =>
    \A i \in 1..Len(json.steps) :
      Occurrences(DuplicateMsg(json.steps[i].id)) =
        IF StepsWithId(json.steps[i].id) >= 2 THEN 1 ELSE 0

\* C8 amended: for each id that occurs n times in json.steps the result
\* holds 'Duplicate step ID: {id}' exactly n - 1 times: once for an id
\* that occurs twice, not at all for an id that occurs once.
C8_DuplicatePerRepetition ==
  Validated =>
    /\ \A i \in 1..Len(json.steps) :
         Occurrences(DuplicateMsg(json.steps[i].id)) = StepsWithId(json.steps[i].id) - 1
    /\ \A k \in 1..Len(errors) :
         errors[k].msg = "Duplicate step ID: value" => StepsWithId(errors[k].value) >= 2

C8_Witness ==
  /\ Validated
  /\ \E i \in 1..Len(json.steps) :
       StepsWithId(json.steps[i].id) = 3 /\ Occurrences(DuplicateMsg(json.steps[i].id)) = 2

\* C9 as stated: validateProcessSchema never throws for a structurally
\* incomplete document, one of whose collections is missing or no array:
\* it returns its list of messages.
C9_NeverThrows ==
  ~json.absent /\ vstatus # "none" => vstatus = "returned"

\* The edge statements of the text, in order.
EdgeLines == SelectSeq(lines, LAMBDA l : l.k = "edge")

\* C10: after all group blocks the text holds exactly one edge statement
\* per flow, in the order of json.flows, between the sanitized ids of the
\* flow's ends; the edge carries the (escaped) branch label exactly when
\* the flow's label is present and not empty, whatever the flow's type; a
\* document without flows yields no edge statement.
C10_EdgePerFlow ==
  Compiled =>
    /\ Len(EdgeLines) = Len(json.flows)
    /\ \A i \in 1..Len(json.flows) :
         /\ EdgeLines[i].from = sanitizeId(json.flows[i].from)
         /\ EdgeLines[i].to = sanitizeId(json.flows[i].to)
         /\ EdgeLines[i].labelled <=> Truthy(json.flows[i].label)
         /\ EdgeLines[i].labelled => EdgeLines[i].label = escapeLabel(json.flows[i].label)
    /\ \A i, j \in 1..Len(lines) :
         lines[i].k = "edge" /\ lines[j].k \in {"subgraph", "node", "end"} => j < i

\* A conditional flow without label is a plain arrow and a normal flow
\* with a label a labelled one.
C10_Witness ==
  /\ Compiled
  /\ \E i \in 1..Len(json.flows) :
       /\ json.flows[i].type = "conditional" /\ ~Truthy(json.flows[i].label)
       /\ ~EdgeLines[i].labelled
  /\ \E i \in 1..Len(json.flows) :
       /\ json.flows[i].type = "normal" /\ Truthy(json.flows[i].label)
       /\ EdgeLines[i].labelled
  /\ \E i \in 1..Len(lines) : lines[i].k = "subgraph"

\* The positions of the group headers in the text.
BlockStarts == SelectSeq(Indices(lines), LAMBDA i : lines[i].k = "subgraph")

\* The position of the end statement that closes the block opened at i.
BlockEnd(i) ==
  CHOOSE j \in (i + 1)..Len(lines) :
    lines[j].k = "end" /\ \A m \in (i + 1)..(j - 1) : lines[m].k # "end"

\* The lines between the header at i and its end statement.
BlockBody(i) == [m \in 1..(BlockEnd(i) - i - 1) |-> lines[i + m]]

\* The steps of the document with the actorId, in the order of json.steps.
StepsOf(actorId) == SelectSeq(json.steps, LAMBDA s : s.actorId = actorId)

\* The actors that have steps, in the order of the group blocks.
ActorsWithBlock ==
  SelectSeq(getActorOrderByFlow(json), LAMBDA a : Len(StepsOf(a.id)) > 0)

\* C11: the text holds one group block for each actor that has steps (none
\* for an actor without steps); the block holds one node statement for each
\* step whose actorId is the actor's id, in the order of json.steps, and
\* nothing else; its label is the actor's name, or 'name - department' if
\* the actor has a non-empty department.
C11_BlockContents ==
  Compiled =>
    /\ Len(BlockStarts) = Len(ActorsWithBlock)
    /\ \A b \in 1..Len(BlockStarts) :
         LET a     == ActorsWithBlock[b]
             body  == BlockBody(BlockStarts[b])
             steps == StepsOf(a.id)
         IN  /\ lines[BlockStarts[b]].id = sanitizeId(a.id)
             /\ Len(body) = Len(steps)
             /\ \A m \in 1..Len(body) :
                  /\ body[m].k = "node"
                  /\ body[m].id = sanitizeId(steps[m].id)
                  /\ body[m].label = escapeLabel(steps[m].label)
             /\ a.name # Undefined =>
                  lines[BlockStarts[b]].label =
                    IF a.department # Undefined /\ a.department # <<>>
                    THEN a.name \o <<" ", "-", " ">> \o a.department
                    ELSE a.name

\* The block of EMP holds s2 before s1, the order of json.steps, although
\* the flow runs from s1 to s2; the actor z has no step and no block; one
\* label carries a department and another none.
C11_Witness ==
  /\ Compiled
  /\ Visited = <<S1, S2>>
  /\ \E i \in 1..Len(json.actors) : json.actors[i].id = ZZZ /\ ~HasSteps(i)
  /\ GroupIds = <<EMP, MGR, FIN, MGR>>
  /\ [m \in 1..Len(BlockBody(BlockStarts[1])) |-> BlockBody(BlockStarts[1])[m].id] = <<S2, S1>>
  /\ lines[BlockStarts[1]].label = NAME
  /\ lines[BlockStarts[4]].label = NAME \o <<" ", "-", " ">> \o DEPT

\* The steps that have a node statement, in the order of the text.
EmittedSteps ==
  Concat([b \in 1..Len(ActorsWithBlock) |-> StepsOf(ActorsWithBlock[b].id)])

\* The node statements of the text, in order.
NodeLines == SelectSeq(lines, LAMBDA l : l.k = "node")

\* C12: the node statement of a step of type start or end is id((label)),
\* of a step of type decision id{label}, and of a step of type action or of
\* any other or no type id["label"].
C12_ShapeByType ==
  Compiled =>
    /\ Len(NodeLines) = Len(EmittedSteps)
    /\ \A i \in 1..Len(NodeLines) :
         NodeLines[i].shape =
           IF EmittedSteps[i].type \in {"start", "end"} THEN <<"((", "))">>
           ELSE IF EmittedSteps[i].type = "decision" THEN <<"{", "}">>
           ELSE <<"[\"", "\"]">>

\* A step of a type outside the enumeration is a rectangle, next to a
\* decision step that is a diamond.
C12_Witness ==
  /\ Compiled
  /\ \E i \in 1..Len(NodeLines) :
       EmittedSteps[i].type = "other" /\ NodeLines[i].shape = <<"[\"", "\"]">>
  /\ \E i \in 1..Len(NodeLines) :
       EmittedSteps[i].type = "decision" /\ NodeLines[i].shape = <<"{", "}">>

\* C13: a node statement carries controlStyle exactly when the step has
\* controls and riskStyle exactly when it has risks, controlStyle first;
\* without either it has no style suffix.
C13_StyleTags ==
  Compiled =>
    /\ Len(NodeLines) = Len(EmittedSteps)
    /\ \A i \in 1..Len(NodeLines) :
         LET hasControls == EmittedSteps[i].controls # <<>>
             hasRisks    == EmittedSteps[i].risks # <<>>
         IN  NodeLines[i].classes =
               IF hasControls /\ hasRisks THEN <<"controlStyle", "riskStyle">>
               ELSE IF hasControls THEN <<"controlStyle">>
               ELSE IF hasRisks THEN <<"riskStyle">>
               ELSE <<>>

\* One text with a step with both, a step with risks only and a step with
\* neither.
C13_Witness ==
  /\ Compiled
  /\ \E i \in 1..Len(NodeLines) : NodeLines[i].classes = <<"controlStyle", "riskStyle">>
  /\ \E i \in 1..Len(NodeLines) : NodeLines[i].classes = <<"riskStyle">>
  /\ \E i \in 1..Len(NodeLines) : NodeLines[i].classes = <<>>

IsRaw(c) == c = "\"" \/ c = "\n"

HasRaw(text) == \E n \in 1..Len(text) : IsRaw(text[n])

\* The emitted label holds #quot; for each double quote and <br/> for each
\* newline of the label of the document, and the other characters as they
\* are.
IsEscapeOf(emitted, label) ==
  /\ ~HasRaw(emitted)
  /\ Len(emitted) =
       Len(label) + 5 * Cardinality({n \in 1..Len(label) : label[n] = "\""})
                  + 4 * Cardinality({n \in 1..Len(label) : label[n] = "\n"})
  /\ \A n \in 1..Len(label) :
       LET at == n + 5 * Cardinality({m \in 1..(n - 1) : label[m] = "\""})
                   + 4 * Cardinality({m \in 1..(n - 1) : label[m] = "\n"})
       IN  IF label[n] = "\""
           THEN SubSeq(emitted, at, at + 5) = <<"#", "q", "u", "o", "t", ";">>
           ELSE IF label[n] = "\n"
           THEN SubSeq(emitted, at, at + 4) = <<"<", "b", "r", "/", ">">>
           ELSE emitted[at] = label[n]

\* C14: in the label of every node statement and of every labelled edge
\* statement each double quote of the step's or flow's label is #quot; and
\* each newline <br/>: the emitted label holds no double quote and no
\* newline.
C14_LabelsEscaped ==
  Compiled =>
    /\ Len(NodeLines) = Len(EmittedSteps)
    /\ \A i \in 1..Len(NodeLines) : IsEscapeOf(NodeLines[i].label, EmittedSteps[i].label)
    /\ Len(EdgeLines) = Len(json.flows)
    /\ \A i \in 1..Len(EdgeLines) :
         EdgeLines[i].labelled => IsEscapeOf(EdgeLines[i].label, json.flows[i].label)

\* A step label with a double quote and a newline is emitted.
C14_Witness ==
  /\ Compiled
  /\ \E i \in 1..Len(NodeLines) :
       /\ EmittedSteps[i].label = QUOTED
       /\ NodeLines[i].label =
            <<"a", "#", "q", "u", "o", "t", ";", "b", "<", "b", "r", "/", ">">>

\* The labels of the text: of the group headers, the node statements and
\* the labelled edge statements.
OutputLabels ==
  {lines[i].label : i \in {n \in 1..Len(lines) : lines[n].k \in {"subgraph", "node"}}}
  \cup {lines[i].label : i \in {n \in 1..Len(lines) : lines[n].k = "edge" /\ lines[n].labelled}}

\* C15 as stated: every text of the document in the output has passed
\* through the label escaping: no label of the text, group labels included,
\* holds a double quote or a newline.
C15_EveryLabelEscaped ==
  Compiled => \A label \in OutputLabels : ~HasRaw(label)

\* The collections of the document are arrays or missing, and the
\* properties of the items hold strings.
HasTypedItems(doc) ==
  /\ doc.actorsKind # "object" /\ doc.stepsKind # "object" /\ doc.flowsKind # "object"
  /\ \A i \in 1..Len(doc.actors) :
       doc.actors[i].id # Undefined /\ doc.actors[i].name # Undefined
  /\ \A i \in 1..Len(doc.steps) :
       /\ doc.steps[i].id # Undefined /\ doc.steps[i].label # Undefined
       /\ doc.steps[i].actorId # Undefined
  /\ \A i \in 1..Len(doc.flows) :
       doc.flows[i].from # Undefined /\ doc.flows[i].to # Undefined

\* C16 as stated: generateMermaidFromJson throws the 'Invalid
\* ProcessSchema' error exactly when the document is absent or lacks the
\* actors or the steps collection; for every other document, with or
\* without flows, it returns the text.
C16_OnlyInvalidSchemaFails ==
  cstatus # "none" /\ HasTypedItems(json) =>
    IF json.absent \/ json.actorsKind = "missing" \/ json.stepsKind = "missing"
    THEN cstatus = "Error"
    ELSE cstatus = "returned"

\* The calls of the trace t keep the order of C17.
ValidatedBeforeCompiled(t) ==
  \A i \in 1..Len(t) :
    t[i].fn = "generateMermaidFromJson" =>
      /\ i > 1
      /\ t[i - 1].fn = "validateProcessSchema"
      /\ t[i - 1].doc = t[i].doc
      /\ ~t[i - 1].threw
      /\ t[i - 1].errors = <<>>
      /\ \A j \in 1..Len(t) :
           t[j].fn = "validateProcessSchema" /\ t[j].doc = t[i].doc /\ ~t[j].threw
             => t[j].errors = <<>>

\* C17: MermaidRenderer calls generateMermaidFromJson on a document only
\* right after validateProcessSchema has returned the empty list for that
\* document in the same run of the effect; a run of the effect in which
\* the validation returns messages sets them as the displayed error and
\* does not compile the document.
C17_CompileOnlyAfterValidation ==
  [][ /\ ValidatedBeforeCompiled(calls')
      /\ calls' # calls /\ calls'[Len(calls')].fn = "validateProcessSchema"
           /\ ~calls'[Len(calls')].threw =>
             /\ calls'[Len(calls')].doc = processJson'
             /\ calls'[Len(calls')].errors # <<>>
             /\ renderError' = ValidationError(calls'[Len(calls')].errors) ]_vars

\* A valid document was compiled after its validation, then a document
\* with messages arrived: the messages are displayed and the document was
\* not compiled.
C17_Witness ==
  /\ Len(calls) = 5
  /\ calls[2] = ValidateEntry(ValidDocument, [threw |-> FALSE, errors |-> <<>>])
  /\ calls[3].fn = "generateMermaidFromJson" /\ calls[3].doc = ValidDocument
  /\ calls[5].fn = "validateProcessSchema" /\ calls[5].doc = DocumentWithoutFlows
  /\ renderError = ValidationError(<<Msg("flows must be an array")>>)

\* All requests so far fell inside the window of the one row of the
\* session.
InsideOneWindow ==
  /\ Len(rate_limits) = 1
  /\ clock < rate_limits[1].window_start + config.windowMinutes

\* C18 as stated: the endpoint enforces 20 requests per 5 minutes per
\* session: of the requests of one session handled one after another
\* inside one window, with a working store, the first 20 are processed and
\* the 21st is answered with status 429 and a Retry-After value.
C18_TwentyPerFiveMinutes ==
  \A p \in SequentialCallers :
    InsideOneWindow /\ call[p].pc = "done" =>
      /\ handled <= DEFAULT_CONFIG.maxRequests => response[p].error # "Rate limit exceeded"
      /\ handled = DEFAULT_CONFIG.maxRequests + 1 =>
           /\ response[p].status = 429
           /\ response[p].error = "Rate limit exceeded"
           /\ response[p].retryAfter # NoRetryAfter

\* C19: checkRateLimit fails open: it returns allowed = true whenever the
\* credentials are missing or the read, the update or the insert fails or
\* throws; it returns allowed = false only after a successful read of a
\* row of the current window whose request_count is at least maxRequests.
C19_FailsOpen ==
  \A p \in Callers :
    call[p].pc = "done" =>
      /\ call[p].read \in {"unconfigured", "error", "throws"} => call[p].result.allowed
      /\ call[p].write \in {"error", "throws, applied", "throws, not applied"}
           => call[p].result.allowed
      /\ ~call[p].result.allowed =>
           /\ credentials
           /\ call[p].read = "row"
           /\ call[p].existingLimit.window_start >= call[p].windowStart
           /\ call[p].existingLimit.request_count >= config.maxRequests

\* The update of a row failed and the call returned allowed = true, with
\* the row at the limit of one request: a call without fault is denied.
C19_Witness ==
  \E p \in Callers :
    /\ call[p].pc = "done"
    /\ faults /\ config.maxRequests = 2
    /\ call[p].read = "row" /\ call[p].write = "error"
    /\ call[p].existingLimit.request_count = 1
    /\ call[p].result.allowed
    /\ handled = 3 /\ allowedCalls = 3

\* C20 as stated: once windowMinutes have elapsed since the window_start
\* of the session's row, the next call of checkRateLimit (with a working
\* store) is allowed and opens a new window with request_count = 1,
\* whatever count the row had reached.
C20_WindowReset ==
  \A p \in SequentialCallers :
    /\ call[p].pc = "done" /\ credentials /\ ~faults
    /\ call[p].latest # NoRow
    /\ call[p].windowStart + config.windowMinutes
         >= call[p].latest.window_start + config.windowMinutes
    => /\ call[p].result.allowed
       /\ Len(rate_limits) > call[p].latest.id
       /\ rate_limits[Len(rate_limits)].request_count = 1

\* C22 as stated: for any interleaving of concurrent calls of
\* checkRateLimit for the same session and endpoint, without store error,
\* the number of the calls that return allowed = true within one window
\* never exceeds maxRequests.  (While clock < windowMinutes all the calls
\* so far lie within one window.)
C22_NeverExceedsMaxRequests ==
  clock < config.windowMinutes => allowedCalls <= config.maxRequests

\* C23: sequential calls of checkRateLimit of one session inside one
\* window, with a working store: the k-th call is allowed exactly when
\* k <= maxRequests; an allowed k-th call reports remaining =
\* maxRequests - k and leaves request_count = k; a denied call reports
\* remaining = 0 and retryAfter >= 0 and leaves request_count unchanged; in
\* every result 0 <= remaining <= limit.
C23_CountsSequentialCalls ==
  \A p \in SequentialCallers :
    call[p].pc = "done" /\ credentials /\ ~faults /\ InsideOneWindow =>
      LET k == handled
          r == call[p].result
      IN  /\ r.allowed <=> k <= config.maxRequests
          /\ r.allowed =>
               /\ r.remaining = config.maxRequests - k
               /\ rate_limits[1].request_count = k
          /\ ~r.allowed =>
               /\ r.remaining = 0
               /\ r.retryAfter >= 0
               /\ rate_limits[1].request_count = call[p].existingLimit.request_count
               /\ rate_limits[1].request_count = config.maxRequests
          /\ r.limit = config.maxRequests
          /\ 0 <= r.remaining /\ r.remaining <= r.limit

\* With maxRequests = 2 the fourth call inside the window is denied, the
\* row still at 2 requests.
C23_Witness ==
  \E p \in SequentialCallers :
    /\ call[p].pc = "done" /\ credentials /\ ~faults /\ InsideOneWindow
    /\ config.maxRequests = 2 /\ handled = 4 /\ allowedCalls = 2
    /\ ~call[p].result.allowed /\ call[p].result.retryAfter > 0
    /\ rate_limits[1].request_count = 2

\* The flows that leave a visited step.
FollowedFlows == {f \in 1..Len(json.flows) : json.flows[f].from \in Range(Visited)}

\* C27: generateMermaidFromJson terminates for every finite document,
\* flow graphs with cycles, self-loops and repeated flows included: the
\* traversal of the actor order visits each step id at most once, so
\* traverseFlows is called once for the start step and once for each flow
\* that leaves a visited step, and the call returns or throws.
C27_TraversalTerminates ==
  cstatus # "none" /\ ~json.absent /\ json.flowsKind = "array" =>
    LET st == traversal(json)
    IN  /\ st.calls < MaxTraversalCalls
        /\ \A i, j \in 1..Len(st.visitedSteps) :
             st.visitedSteps[i] = st.visitedSteps[j] => i = j
        /\ st.calls =
             IF \E i \in 1..Len(json.steps) : json.steps[i].type = "start"
             THEN 1 + Cardinality(FollowedFlows)
             ELSE 0

\* A document whose flows form a cycle through the start step, with a
\* self-loop: it was compiled, every step of the cycle visited once.
C27_Witness ==
  /\ Compiled
  /\ json.flows = <<Flow(S1, S2, Undefined, "normal"), Flow(S2, S2, Undefined, "normal"),
                    Flow(S2, S1, Undefined, "normal")>>
         \/ json.flows = <<Flow(S1, S2, Undefined, "normal"), Flow(S2, S4, Undefined, "normal"),
                           Flow(S4, S1, Undefined, "normal")>>
  /\ traversal(json).calls = 4

\* The ids of the actors that have steps.
ActorIdsWithSteps ==
  {json.actors[i].id : i \in {j \in 1..Len(json.actors) : HasSteps(j)}}

\* The identifiers of the node statements of the text.
NodeIds == {NodeLines[i].id : i \in 1..Len(NodeLines)}

\* C28 as stated: for every document on which validateProcessSchema
\* returns the empty list, the compiled text contains exactly one node
\* statement for each step and exactly one group block for each actor that
\* has steps, and both ends of every edge statement are identifiers of
\* emitted node statements.
C28_OneStatementPerStep ==
  Validated /\ errors = <<>> /\ Compiled =>
    /\ Len(NodeLines) = Len(json.steps)
    /\ \A i \in 1..Len(json.steps) : sanitizeId(json.steps[i].id) \in NodeIds
    /\ Len(BlockStarts) = Cardinality(ActorIdsWithSteps)
    /\ \A id \in ActorIdsWithSteps : \E b \in 1..Len(GroupIds) : GroupIds[b] = sanitizeId(id)
    /\ \A i \in 1..Len(EdgeLines) :
         EdgeLines[i].from \in NodeIds /\ EdgeLines[i].to \in NodeIds

\* The ids of the steps of the document.
StepIds == {json.steps[i].id : i \in 1..Len(json.steps)}

\* C29 as stated: identifier sanitization keeps distinct ids distinct: for
\* every document on which validateProcessSchema returns the empty list,
\* steps with different ids are emitted with different node identifiers and
\* actors with different ids with different group identifiers.
C29_DistinctIdsStayDistinct ==
  Validated /\ errors = <<>> /\ Compiled =>
    /\ Cardinality(NodeIds) = Cardinality(StepIds)
    /\ Cardinality(Range(GroupIds)) = Cardinality(ActorIdsWithSteps)

C21_DefaultsToUpdated ==
  chat = "responded" /\ assistant.json # NoDocument
                     /\ ~includes(assistant.content, "<UNCHANGED>")
    => assistant.updated

\* The response of a turn carries no fenced JSON.
CarriesNoFencedJson(content) == ~jsonMatch(content).found

\* The fenced JSON of the response does not parse.
FailsToParse(content) ==
  jsonMatch(content).found /\ JSONparse(jsonMatch(content).group).threw

\* The fenced JSON of the response does not parse after the repair either.
FailsToParseAfterRepair(content) ==
  /\ FailsToParse(content)
  /\ JSONparse(attemptJSONRepair(jsonMatch(content).group)).threw

\* The fenced JSON of the response parses, as written or after the repair,
\* to a value that does not match the structure of the schema.
FailsSchema(content) ==
  LET text == jsonMatch(content).group
      parsed == JSONparse(text)
      repaired == JSONparse(attemptJSONRepair(text))
  IN  /\ jsonMatch(content).found
      /\ \/ ~parsed.threw /\ ~isProcessSchema(parsed.value)
         \/ parsed.threw /\ ~repaired.threw /\ ~isProcessSchema(repaired.value)

\* The step sets the current document.
SetsCurrentJSON == jsonSets' # jsonSets \/ currentJSON' # currentJSON

\* The current document is set only by a chat response marked updated that
\* carries a JSON matching the schema, by an upload or by Start Over.
ChangesOnlyThrough ==
  SetsCurrentJSON =>
    \/ cause' \in {"handleJSONUpload", "handleStartOver"}
    \/ /\ cause' = "response" /\ assistant.updated
       /\ assistant.json # NoDocument /\ isProcessSchema(assistant.json)

\* C25 as stated: the current document of AppV2 changes only through a chat
\* response marked updated that carries a schema-conforming JSON, an upload
\* or Start Over; a turn whose response is tagged <UNCHANGED>, carries no
\* fenced JSON, or carries JSON that fails to parse or to match the schema
\* leaves the current document unchanged.
C25_ChangesOnlyWhenUpdated_Original ==
  [][ /\ ChangesOnlyThrough
      /\ cause' = "response"
           /\ \/ includes(assistant.content, "<UNCHANGED>")
              \/ CarriesNoFencedJson(assistant.content)
              \/ FailsToParse(assistant.content)
              \/ FailsSchema(assistant.content)
         => ~SetsCurrentJSON ]_vars

\* C25, amended: the current document of AppV2 changes only through a chat
\* response marked updated that carries a schema-conforming JSON, an upload
\* or Start Over; a turn whose response is tagged <UNCHANGED> and not
\* <UPDATED>, carries no fenced JSON, or carries JSON that fails to parse
\* even after the repair of trailing commas or fails to match the schema
\* leaves the current document unchanged.
C25_ChangesOnlyWhenUpdated ==
  [][ /\ ChangesOnlyThrough
      /\ cause' = "response"
           /\ \/ /\ includes(assistant.content, "<UNCHANGED>")
                 /\ ~includes(assistant.content, "<UPDATED>")
              \/ CarriesNoFencedJson(assistant.content)
              \/ FailsToParseAfterRepair(assistant.content)
              \/ FailsSchema(assistant.content)
         => ~SetsCurrentJSON ]_vars

\* An uploaded document is current, and a turn whose response carries a
\* conforming JSON and the tag <UNCHANGED> has left it as it was.
C25_Witness ==
  /\ cause = "response" /\ chat = "idle"
  /\ includes(assistant.content, "<UNCHANGED>")
  /\ ~includes(assistant.content, "<UPDATED>")
  /\ assistant.json # NoDocument /\ assistant.json # currentJSON
  /\ currentJSON = ParsedB /\ jsonSets = 1


\* All calls of mermaid.render have settled.
Settled == pending = <<>>

\* C24: in MermaidRenderer, after any sequence of documents and any order
\* in which the calls of mermaid.render settle, once all have settled: if
\* the current document is valid and no error is displayed, the container
\* shows the svg rendered from the text of the current document, and if
\* the current document failed the validation its messages are displayed.
C24_SettledShowsCurrent ==
  Settled /\ ~processJson.absent =>
    LET v == validateProcessSchema(processJson)
        g == generateMermaidFromJson(processJson)
    IN  /\ ~v.threw /\ v.errors = <<>> /\ renderError = NoError =>
             /\ containerRef.current # NoElement
             /\ containerRef.innerHTML = svgOf(g.lines)
        /\ ~v.threw /\ v.errors # <<>> => renderError = ValidationError(v.errors)


\* The debounced value takes a new value only when that value is the
\* current document and has been so for the delay.
TakesOnlySettledValue ==
  [][ debouncedValue' # debouncedValue =>
        debouncedValue' = current /\ unchangedFor >= delay ]_vars

\* A value that setCurrentJSON set and that was replaced before the delay
\* had passed is not passed to the renderer.
NeverPassesReplacedValue ==
  [](debouncedValue.change > 0 => debouncedValue.change \notin replacedEarly)

\* When the current document stops changing, the renderer gets it.
EventuallyPassesLatest ==
  \A n \in 0..MaxChanges :
    <>[](current.change = n) => <>[](debouncedValue = current)

\* C26: the document that AppV2 passes to the renderer (the output of
\* useDebounce with the delay of 300 ms) takes a new value v only after the
\* current document has been v for 300 ms without changing; a value that is
\* replaced within 300 ms is never passed to the renderer; and when the
\* current document stops changing, the renderer eventually receives the
\* latest value.
C26_DebouncedDocument ==
  TakesOnlySettledValue /\ NeverPassesReplacedValue /\ EventuallyPassesLatest

\* A document was replaced within the delay and its successor has been
\* passed to the renderer after the delay.
C26_Witness ==
  /\ changes = 2 /\ 1 \in replacedEarly
  /\ debouncedValue = current /\ current.change = 2 /\ current.doc = ParsedB
  /\ unchangedFor >= delay /\ timeouts = {}

====
